---- MODULE Spec2Model ----
(***************************************************************************)
(* Connector dispatcher of GOD (src/src/llm.ts): requestChatCompletion and *)
(* testConnector as a state machine over one invocation at a time.         *)
(* Spec runs single invocations; SpecCalls runs sequences of them and      *)
(* keeps the invocation before the current one in prev.                    *)
(*                                                                         *)
(* Strings are sequences of tokens.  A token is a TLA+ string standing for *)
(* a run of characters that the code's string operations never split:      *)
(* a host with its port, a path part, one character of a response body.    *)
(* The needles the code searches for are single tokens, so includes() is   *)
(* membership of the needle among the tokens and startsWith() is a test of *)
(* the first token.  The whitespace token is " ".                          *)
(*                                                                         *)
(* The prompts of the automation engine (src/src/automation.ts) are        *)
(* sequences of single characters, since its patterns work on characters;  *)
(* SpecAutomation runs the engine on them.  The fixed texts the engine     *)
(* writes into its output are single tokens; the pictographs that open     *)
(* some of them are left out.                                              *)
(*                                                                         *)
(* SpecApp runs the console (src/src/App.tsx): the prompt turn of          *)
(* submitPrompt and the approval queue with its audit log.  SpecTurns runs *)
(* sessions of several prompt turns against the dispatcher's outcomes, and *)
(* SpecTurnsFair adds that every await of a turn settles.                  *)
(***************************************************************************)
EXTENDS Integers, Sequences, FiniteSets, TLC

VARIABLES envKey, pc, op, settings, messages, request, netCalls, net, outcome,
          prev,
          runPc, userPrompt, tasks, taskIndex, outputs,
          busy, appMessages, pendingRequests, auditLog, turns, nextId, lastEvent

\* the variables of one run of the automation engine (src/src/automation.ts)
automationVars == <<runPc, userPrompt, tasks, taskIndex, outputs>>

\* the state of the console (src/src/App.tsx): busy, messages,
\* pendingRequests and auditLog, with the calls of submitPrompt that have
\* not returned (turns, the oldest first), the ids handed out and the
\* handler that ran last
appVars == <<busy, appMessages, pendingRequests, auditLog, turns, nextId, lastEvent>>

\* what lies outside the dispatcher
outside == <<automationVars, appVars>>

vars == <<envKey, pc, op, settings, messages, request, netCalls, net, outcome,
          prev, outside>>

(***************************************************************************)
(* Bounds of the model.                                                    *)
(***************************************************************************)
\* longest conversation history handed to requestChatCompletion
MaxHistory == 2

\* longest task list handed to runAutomation
MaxTasks == 3

(***************************************************************************)
(* String primitives (String.prototype.trim, toLowerCase, includes,        *)
(* startsWith, slice) on token sequences.                                  *)
(***************************************************************************)
WS == " "

\* the white space of trim() and of \s: blank, line feed, tab
IsSpace(c) == c \in {WS, "\n", "\t"}

RECURSIVE TrimStart(_)
TrimStart(s) ==
  IF s # <<>> /\ IsSpace(Head(s)) THEN TrimStart(Tail(s)) ELSE s

RECURSIVE TrimEnd(_)
TrimEnd(s) ==
  IF s # <<>> /\ IsSpace(s[Len(s)]) THEN TrimEnd(SubSeq(s, 1, Len(s) - 1)) ELSE s

Trim(s) == TrimEnd(TrimStart(s))

\* toLowerCase of one token: the tokens of the model that carry upper-case
\* letters inside a needle the code looks for in lower case
UpperLetters ==
  <<"A", "B", "C", "D", "E", "F", "G", "H", "I", "J", "K", "L", "M",
    "N", "O", "P", "Q", "R", "S", "T", "U", "V", "W", "X", "Y", "Z">>

LowerLetters ==
  <<"a", "b", "c", "d", "e", "f", "g", "h", "i", "j", "k", "l", "m",
    "n", "o", "p", "q", "r", "s", "t", "u", "v", "w", "x", "y", "z">>

LowerToken(t) ==
  CASE \E i \in 1..26 : UpperLetters[i] = t ->
         LowerLetters[CHOOSE i \in 1..26 : UpperLetters[i] = t]
    [] t = "LOCALHOST:11434" -> "localhost:11434"
    [] t = "GenerativeLanguage.GoogleAPIs.com" -> "generativelanguage.googleapis.com"
    [] t = "Failed to fetch" -> "failed to fetch"
    [] t = "/Models/" -> "/models/"
    [] t = ":GenerateContent" -> ":generatecontent"
    [] t = ":generateContent" -> ":generatecontent"
    [] OTHER -> t

ToLowerCase(s) == [i \in 1..Len(s) |-> LowerToken(s[i])]

Includes(s, needle) == \E i \in 1..Len(s) : s[i] = needle

\* the characters w stand in s from position i on
StartsAt(s, i, w) == i + Len(w) - 1 <= Len(s) /\ SubSeq(s, i, i + Len(w) - 1) = w

\* includes() for a needle of several characters
IncludesText(s, w) == \E i \in 1..Len(s) : StartsAt(s, i, w)

StartsWith(s, prefix) == s # <<>> /\ s[1] = prefix

\* s.slice(0, n)
Slice0(s, n) == SubSeq(s, 1, IF Len(s) < n THEN Len(s) ELSE n)

\* optional values: <<>> is absent (undefined), <<v>> is present
Absent == <<>>
Some(v) == <<v>>
IsSome(o) == o # <<>>
Get(o) == o[1]

(***************************************************************************)
(* Tokens of endpoints.  SegBreakers are the tokens of the model that hold *)
(* one of the characters : / ? , which the model-segment pattern           *)
(* [^:/?]+ of withGeminiModel does not cross.                              *)
(***************************************************************************)
Schemes == {"https://", "http://"}

GeminiHost == "generativelanguage.googleapis.com"

SegBreakers ==
  Schemes \cup {"localhost:11434", "LOCALHOST:11434", "127.0.0.1:11434",
                "/v1beta", "/v1/chat/completions", "/models/", "/Models/",
                ":generateContent", ":GenerateContent", "?", "/proxy/", "/"}

IsSegToken(t) == t \notin SegBreakers

(***************************************************************************)
(* Error values.  llm.ts throws new Error(message); the platform throws    *)
(* TypeError (fetch, new URL), SyntaxError (response.json) or, from fetch, *)
(* a value that is no Error at all.                                        *)
(***************************************************************************)
Err(name, message) == [name |-> name, message |-> message]

NoError == Err("", <<>>)

Resolved(text) == [ok |-> TRUE, value |-> text, error |-> NoError]

Rejected(e) == [ok |-> FALSE, value |-> <<>>, error |-> e]

(***************************************************************************)
(* llm.ts helpers.                                                         *)
(***************************************************************************)
\* error.message of a caught value, 'Unknown network error' for a non-Error
CaughtMessage(thrown) ==
  IF thrown.name # "nonError" THEN thrown.message ELSE <<"Unknown network error">>

\* mutant of safeFetchError: the caught value is thrown on as it is
safeFetchErrorRethrown(thrown, provider) == thrown

\* the error safeFetch throws for a value thrown by fetch
safeFetchError(thrown, provider) ==
  LET message == CaughtMessage(thrown) IN
  IF provider = "OpenAI-compatible" /\ Includes(ToLowerCase(message), "failed to fetch")
  THEN Err("Error",
           <<"OpenAI-compatible",
             " request failed in browser (Failed to fetch). This is commonly CORS/network policy. Use Gemini preset, Ollama local preset, or route requests through your own backend relay.">>)
  ELSE Err("Error",
           <<provider, " request could not reach the endpoint (">> \o message
             \o <<"). Check internet access, endpoint URL, CORS/referrer restrictions, and firewall/proxy settings.">>)

BriefLen == 220

\* mutant of formatProviderHttpError: 403 is not taken for an
\* authentication failure
formatProviderHttpErrorOnly401(provider, status, details) ==
  LET brief == Slice0(details, BriefLen) IN
  IF status = 429
  THEN <<provider, " quota/rate limit reached (", ToString(status), "): ">> \o brief
         \o <<". Check billing/quota, then retry later or switch to Ollama preset.">>
  ELSE IF status = 401
  THEN <<provider, " authentication/permission failed (", ToString(status), "): ">> \o brief
         \o <<". Verify API key and provider permissions.">>
  ELSE IF provider = "Gemini"
  THEN <<"Gemini", " request failed (", ToString(status), "): ">> \o brief
         \o <<". Verify API key validity and that Generative Language API is enabled.">>
  ELSE <<provider, " request failed (", ToString(status), "): ">> \o brief

formatProviderHttpError(provider, status, details) ==
  LET brief == Slice0(details, BriefLen) IN
  IF status = 429
  THEN <<provider, " quota/rate limit reached (", ToString(status), "): ">> \o brief
         \o <<". Check billing/quota, then retry later or switch to Ollama preset.">>
  ELSE IF status = 401 \/ status = 403
  THEN <<provider, " authentication/permission failed (", ToString(status), "): ">> \o brief
         \o <<". Verify API key and provider permissions.">>
  ELSE IF provider = "Gemini"
  THEN <<"Gemini", " request failed (", ToString(status), "): ">> \o brief
         \o <<". Verify API key validity and that Generative Language API is enabled.">>
  ELSE <<provider, " request failed (", ToString(status), "): ">> \o brief

\* mutant of isGeminiEndpoint: the provider of the invocation before is
\* remembered and used again
isGeminiEndpointSticky(endpoint) ==
  IF IsSome(prev.request) THEN Get(prev.request).provider = "Gemini"
  ELSE Includes(endpoint, GeminiHost)

isGeminiEndpoint(endpoint) == Includes(endpoint, GeminiHost)

isLocalOllamaEndpoint(endpoint) ==
  LET value == ToLowerCase(endpoint) IN
  Includes(value, "localhost:11434") \/ Includes(value, "127.0.0.1:11434")

\* import.meta.env.VITE_GOD_API_KEY ?? '' is the process-wide key envKey
resolveApiKey(s) ==
  LET entered == Trim(s.apiKey) IN
  IF entered # <<>> THEN entered ELSE Trim(envKey)

\* mutant of validateProviderSettings: no exemption for the local endpoint
validateProviderSettingsNoLocal(endpoint, apiKey) ==
  LET trimmedKey == Trim(apiKey)
      gemini == isGeminiEndpoint(endpoint)
  IN
  IF trimmedKey = <<>> THEN Absent
  ELSE IF gemini /\ ~StartsWith(trimmedKey, "AIza")
  THEN Some(<<"Gemini preset expects a Google API key (usually starts with AIza).">>)
  ELSE IF ~gemini /\ StartsWith(trimmedKey, "AIza")
  THEN Some(<<"OpenAI-compatible preset cannot use a Google Gemini key. Switch preset to Gemini API or provide a compatible provider key.">>)
  ELSE Absent

\* null is Absent, a problem text is Some(text)
validateProviderSettings(endpoint, apiKey) ==
  LET trimmedKey == Trim(apiKey)
      gemini == isGeminiEndpoint(endpoint)
  IN
  IF isLocalOllamaEndpoint(endpoint) THEN Absent
  ELSE IF trimmedKey = <<>> THEN Absent
  ELSE IF gemini /\ ~StartsWith(trimmedKey, "AIza")
  THEN Some(<<"Gemini preset expects a Google API key (usually starts with AIza).">>)
  ELSE IF ~gemini /\ StartsWith(trimmedKey, "AIza")
  THEN Some(<<"OpenAI-compatible preset cannot use a Google Gemini key. Switch preset to Gemini API or provide a compatible provider key.">>)
  ELSE Absent


(***************************************************************************)
(* new URL(endpoint), url.searchParams and url.toString().  An endpoint    *)
(* parses when it starts with a scheme and a host; the host is token 2 and *)
(* is lower-cased by the parser.  The query is what follows the first "?": *)
(* parameters separated by "&", each a name token ending in "=" followed   *)
(* by the tokens of its value.                                             *)
(***************************************************************************)
URLParses(endpoint) == Len(endpoint) >= 2 /\ endpoint[1] \in Schemes

QueryStart(s) ==
  IF Includes(s, "?") THEN CHOOSE i \in 1..Len(s) : s[i] = "?" /\ \A j \in 1..(i - 1) : s[j] # "?"
  ELSE Len(s) + 1

\* the index of the first "&" of q, or Len(q) + 1
AmpAt(q) ==
  IF Includes(q, "&") THEN CHOOSE i \in 1..Len(q) : q[i] = "&" /\ \A j \in 1..(i - 1) : q[j] # "&"
  ELSE Len(q) + 1

RECURSIVE ParseQuery(_)
ParseQuery(q) ==
  IF q = <<>> THEN <<>>
  ELSE LET a == AmpAt(q) IN
       (IF a > 1 THEN <<[name |-> q[1], value |-> SubSeq(q, 2, a - 1)]>> ELSE <<>>)
         \o ParseQuery(SubSeq(q, a + 1, Len(q)))

RECURSIVE SerializeQuery(_)
SerializeQuery(params) ==
  IF params = <<>> THEN <<>>
  ELSE <<params[1].name>> \o params[1].value
         \o (IF Len(params) > 1 THEN <<"&">> \o SerializeQuery(Tail(params)) ELSE <<>>)

ParseURL(endpoint) ==
  LET q == QueryStart(endpoint) IN
  [base |-> [i \in 1..(q - 1) |-> IF i = 2 THEN LowerToken(endpoint[i]) ELSE endpoint[i]],
   searchParams |-> ParseQuery(SubSeq(endpoint, q + 1, Len(endpoint)))]

URLToString(url) ==
  url.base \o (IF url.searchParams = <<>> THEN <<>>
               ELSE <<"?">> \o SerializeQuery(url.searchParams))

SearchParamsHas(url, name) ==
  \E i \in 1..Len(url.searchParams) : url.searchParams[i].name = name

\* only called when the name is not there yet: appends the pair
SearchParamsSet(url, name, value) ==
  [url EXCEPT !.searchParams = @ \o <<[name |-> name, value |-> value]>>]

\* mutant of withGeminiApiKey: a key parameter already in the endpoint is
\* replaced by the resolved key
withGeminiApiKeyReplacing(endpoint, apiKey) ==
  LET trimmedApiKey == Trim(apiKey) IN
  IF trimmedApiKey = <<>> THEN Some(endpoint)
  ELSE IF ~URLParses(endpoint) THEN Absent
  ELSE LET url == ParseURL(endpoint)
           others == SelectSeq(url.searchParams, LAMBDA p : p.name # "key=")
       IN Some(URLToString(SearchParamsSet([url EXCEPT !.searchParams = others],
                                           "key=", trimmedApiKey)))

\* Some(url) or, when new URL throws its TypeError, Absent.  The keys of the
\* model hold no character that the query encoding escapes.
withGeminiApiKey(endpoint, apiKey) ==
  LET trimmedApiKey == Trim(apiKey) IN
  IF trimmedApiKey = <<>> THEN Some(endpoint)
  ELSE IF ~URLParses(endpoint) THEN Absent
  ELSE LET url == ParseURL(endpoint) IN
       Some(URLToString(IF ~SearchParamsHas(url, "key=")
                        THEN SearchParamsSet(url, "key=", trimmedApiKey)
                        ELSE url))


\* endpoint.replace(/\/models\/[^:/?]+(?::generateContent)?/i, ...): the
\* first "/models/" (any case) followed by at least one segment token; the
\* match runs over the segment tokens and an optional ":generateContent"
ModelMatchAt(s, i) ==
  /\ i + 1 <= Len(s)
  /\ LowerToken(s[i]) = "/models/"
  /\ IsSegToken(s[i + 1])

RECURSIVE SegRunEnd(_, _)
SegRunEnd(s, j) ==
  IF j + 1 <= Len(s) /\ IsSegToken(s[j + 1]) THEN SegRunEnd(s, j + 1) ELSE j

withGeminiModel(endpoint, model) ==
  LET trimmedModel == Trim(model) IN
  IF trimmedModel = <<>> THEN endpoint
  ELSE IF ~\E i \in 1..Len(endpoint) : ModelMatchAt(endpoint, i) THEN endpoint
  ELSE LET i == CHOOSE k \in 1..Len(endpoint) :
                  ModelMatchAt(endpoint, k) /\ \A h \in 1..(k - 1) : ~ModelMatchAt(endpoint, h)
           j == SegRunEnd(endpoint, i + 1)
           e == IF j + 1 <= Len(endpoint) /\ LowerToken(endpoint[j + 1]) = ":generatecontent"
                THEN j + 1 ELSE j
       IN SubSeq(endpoint, 1, i - 1) \o <<"/models/">> \o trimmedModel
            \o <<":generateContent">> \o SubSeq(endpoint, e + 1, Len(endpoint))

\* mutant of buildHeaders: the key entered in the settings, untrimmed, and
\* never the process-wide key
buildHeadersEnteredKey(s) ==
  [ContentType |-> <<"application/json">>,
   Authorization |-> IF s.apiKey # <<>> THEN Some(<<"Bearer ">> \o s.apiKey) ELSE Absent]

\* headers as a record; Authorization is optional
buildHeaders(s) ==
  LET apiKey == resolveApiKey(s) IN
  [ContentType |-> <<"application/json">>,
   Authorization |-> IF apiKey # <<>> THEN Some(<<"Bearer ">> \o apiKey) ELSE Absent]

JsonHeaders == [ContentType |-> <<"application/json">>, Authorization |-> Absent]


(***************************************************************************)
(* The two operations, each in two parts: up to the fetch it issues, and   *)
(* from the response on.  Send yields the rejection it ends in, or the     *)
(* request handed to safeFetch.                                            *)
(***************************************************************************)
Fail(e) == [outcome |-> Some(Rejected(e)), request |-> Absent]

Fetch(url, headers, body, provider) ==
  [outcome |-> Absent,
   request |-> Some([url |-> url, method |-> "POST", headers |-> headers,
                     body |-> body, provider |-> provider])]

InvalidURL == Err("TypeError", <<"Failed to construct 'URL': Invalid URL">>)

\* mutant of endpointValueOf: the endpoint is taken as entered
endpointValueUntrimmed(s) == s.endpoint

\* const endpointValue = settings.endpoint.trim()
endpointValueOf(s) == Trim(s.endpoint)

\* mutant of GeminiContents: system messages are not filtered out
GeminiContentsUnfiltered(msgs) ==
  [i \in 1..Len(msgs) |->
     [role |-> IF msgs[i].role = "assistant" THEN "model" ELSE "user",
      parts |-> <<[text |-> msgs[i].content]>>]]

GeminiContents(msgs) ==
  LET kept == SelectSeq(msgs, LAMBDA m : m.role # "system") IN
  [i \in 1..Len(kept) |->
     [role |-> IF kept[i].role = "assistant" THEN "model" ELSE "user",
      parts |-> <<[text |-> kept[i].content]>>]]

\* mutant of OpenAIMessages: the history's system messages are left out, as
\* on the Gemini path
OpenAIMessagesFiltered(msgs, s) ==
  LET kept == SelectSeq(msgs, LAMBDA m : m.role # "system") IN
  <<[role |-> "system", content |-> Trim(s.systemPrompt)]>>
    \o [i \in 1..Len(kept) |-> [role |-> kept[i].role, content |-> kept[i].content]]

OpenAIMessages(msgs, s) ==
  <<[role |-> "system", content |-> Trim(s.systemPrompt)]>>
    \o [i \in 1..Len(msgs) |-> [role |-> msgs[i].role, content |-> msgs[i].content]]

requestChatCompletionSend(msgs, s) ==
  LET endpointValue == endpointValueOf(s)
      apiKey == resolveApiKey(s)
      configProblem == validateProviderSettings(endpointValue, apiKey)
  IN
  IF endpointValue = <<>>
  THEN Fail(Err("Error", <<"Connector endpoint is empty. Set a valid endpoint in Connector settings.">>))
  ELSE IF IsSome(configProblem) THEN Fail(Err("Error", Get(configProblem)))
  ELSE IF isGeminiEndpoint(Trim(s.endpoint))
  THEN LET modelEndpoint == withGeminiModel(endpointValue, s.model)
           endpoint == withGeminiApiKey(modelEndpoint, apiKey)
           payload == [system_instruction |-> [parts |-> <<[text |-> Trim(s.systemPrompt)]>>],
                       contents |-> GeminiContents(msgs)]
       IN IF ~IsSome(endpoint) THEN Fail(InvalidURL)
          ELSE Fetch(Get(endpoint), JsonHeaders, payload, "Gemini")
  ELSE LET payload == [model |-> Trim(s.model),
                       messages |-> OpenAIMessages(msgs, s),
                       temperature |-> "0.3"]
       IN Fetch(endpointValue, buildHeaders(s), payload, "OpenAI-compatible")

\* response.ok
ResponseOk(response) == response.status >= 200 /\ response.status <= 299

NotJson == Err("SyntaxError", <<"Unexpected token in JSON">>)

\* mutant of JoinParts: the texts joined with a space between them
RECURSIVE JoinPartsSpaced(_)
JoinPartsSpaced(parts) ==
  IF parts = <<>> THEN <<>>
  ELSE (IF IsSome(parts[1].text) THEN Get(parts[1].text) ELSE <<>>)
         \o (IF Len(parts) > 1 THEN <<WS>> ELSE <<>>) \o JoinPartsSpaced(Tail(parts))

\* part.text ?? '' of every part, joined with ''
RECURSIVE JoinParts(_)
JoinParts(parts) ==
  IF parts = <<>> THEN <<>>
  ELSE (IF IsSome(parts[1].text) THEN Get(parts[1].text) ELSE <<>>) \o JoinParts(Tail(parts))

\* mutant of GeminiContent: the joined text is not trimmed
GeminiContentUntrimmed(body) ==
  IF ~IsSome(body.candidates) \/ Get(body.candidates) = <<>> THEN Absent
  ELSE LET c == Get(body.candidates)[1] IN
       IF ~IsSome(c.content) \/ ~IsSome(Get(c.content).parts) THEN Absent
       ELSE Some(JoinParts(Get(Get(c.content).parts)))

\* body.candidates?.[0]?.content?.parts?.map(...).join('').trim(), Absent for undefined
GeminiContent(body) ==
  IF ~IsSome(body.candidates) \/ Get(body.candidates) = <<>> THEN Absent
  ELSE LET c == Get(body.candidates)[1] IN
       IF ~IsSome(c.content) \/ ~IsSome(Get(c.content).parts) THEN Absent
       ELSE Some(Trim(JoinParts(Get(Get(c.content).parts))))

\* body.choices?.[0]?.message?.content?.trim(), Absent for undefined
OpenAIContent(body) ==
  IF ~IsSome(body.choices) \/ Get(body.choices) = <<>> THEN Absent
  ELSE LET c == Get(body.choices)[1] IN
       IF ~IsSome(c.message) \/ ~IsSome(Get(c.message).content) THEN Absent
       ELSE Some(Trim(Get(Get(c.message).content)))

requestChatCompletionReceive(provider, response) ==
  IF ~ResponseOk(response)
  THEN Rejected(Err("Error", formatProviderHttpError(provider, response.status, response.text)))
  ELSE IF ~response.json.valid THEN Rejected(NotJson)
  ELSE IF provider = "Gemini"
  THEN LET content == GeminiContent(response.json) IN
       IF ~IsSome(content) \/ Get(content) = <<>>
       THEN Rejected(Err("Error", <<"Gemini response did not include assistant content.">>))
       ELSE Resolved(Get(content))
  ELSE LET content == OpenAIContent(response.json) IN
       IF ~IsSome(content) \/ Get(content) = <<>>
       THEN Rejected(Err("Error", <<"LLM response did not include assistant content.">>))
       ELSE Resolved(Get(content))

Probe == <<"Reply with: OK">>

testConnectorSend(s) ==
  LET endpointValue == endpointValueOf(s)
      apiKey == resolveApiKey(s)
      configProblem == validateProviderSettings(endpointValue, apiKey)
  IN
  IF endpointValue = <<>> THEN Fail(Err("Error", <<"Connector endpoint is empty.">>))
  ELSE IF IsSome(configProblem) THEN Fail(Err("Error", Get(configProblem)))
  ELSE IF isGeminiEndpoint(Trim(s.endpoint))
  THEN LET modelEndpoint == withGeminiModel(endpointValue, s.model)
           endpoint == withGeminiApiKey(modelEndpoint, apiKey)
           payload == [system_instruction |-> [parts |-> <<[text |-> Trim(s.systemPrompt)]>>],
                       contents |-> <<[role |-> "user", parts |-> <<[text |-> Probe]>>]>>,
                       generationConfig |-> [maxOutputTokens |-> 8, temperature |-> "0"]]
       IN IF ~IsSome(endpoint) THEN Fail(InvalidURL)
          ELSE Fetch(Get(endpoint), JsonHeaders, payload, "Gemini")
  ELSE LET payload == [model |-> Trim(s.model),
                       messages |-> <<[role |-> "system", content |-> Trim(s.systemPrompt)],
                                      [role |-> "user", content |-> Probe]>>,
                       temperature |-> "0",
                       max_tokens |-> 8]
       IN Fetch(endpointValue, buildHeaders(s), payload, "OpenAI-compatible")

\* mutant of testConnectorReceive: the status of the response is not looked at
testConnectorReceiveAnyStatus(provider, response) ==
  IF provider = "Gemini" THEN Resolved(<<"Gemini connector reachable">>)
  ELSE Resolved(<<"Connector reachable">>)

testConnectorReceive(provider, response) ==
  IF ~ResponseOk(response)
  THEN Rejected(Err("Error", formatProviderHttpError(provider, response.status, response.text)))
  ELSE IF provider = "Gemini" THEN Resolved(<<"Gemini connector reachable">>)
  ELSE Resolved(<<"Connector reachable">>)


(***************************************************************************)
(* Inputs: the settings a user can enter, the histories, and what the      *)
(* network can answer.                                                     *)
(***************************************************************************)
OllamaPath == <<"/v1/chat/completions">>

GeminiPath == <<"/v1beta", "/models/", "gemini-1.5-flash", ":generateContent">>

Endpoints ==
  { <<>>,
    <<WS>>,
    <<"http://", "localhost:11434">> \o OllamaPath,
    <<"http://", "LOCALHOST:11434">> \o OllamaPath,
    <<"http://", "127.0.0.1:11434">> \o OllamaPath,
    <<"https://", "api.openai.com">> \o OllamaPath,
    <<WS, "https://", "api.openai.com">> \o OllamaPath \o <<WS>>,
    <<"https://", GeminiHost>> \o GeminiPath,
    <<WS, "https://", GeminiHost>> \o GeminiPath \o <<WS>>,
    <<"https://", GeminiHost, "/v1beta", "/Models/", "text", "bison">>,
    <<"https://", GeminiHost>> \o GeminiPath \o <<"?", "key=", "AIza", "OLD">>,
    <<"https://", GeminiHost, "/v1beta", "/models/", "x", ":GenerateContent", "?", "alt=", "sse">>,
    <<"https://", GeminiHost, "/v1beta">>,
    <<GeminiHost>> \o GeminiPath,
    <<"https://", "GenerativeLanguage.GoogleAPIs.com">> \o GeminiPath,
    <<"http://", "LOCALHOST:11434", "/proxy/", GeminiHost>> \o GeminiPath }

ApiKeys == { <<>>, <<WS>>, <<WS, "sk-", "KEY", WS>>, <<"AIza", "KEY">> }

EnvKeys == { <<>>, <<"AIza", "ENV", WS>> }

Models == { <<>>, <<WS, "gemini-pro", WS>>, <<"tinyllama">> }

SystemPrompts == { <<>>, <<WS, "You are GOD,", WS, "a concise and safe assistant", WS>> }

Settings ==
  [endpoint : Endpoints, model : Models, apiKey : ApiKeys, systemPrompt : SystemPrompts]

NoSettings == [endpoint |-> <<>>, model |-> <<>>, apiKey |-> <<>>, systemPrompt |-> <<>>]

Roles == {"user", "assistant", "system"}

\* the i-th message of a conversation: ids are unique, the content keeps its
\* surrounding whitespace
Message(i, role) ==
  [id |-> i, role |-> role, content |-> <<WS, "message", ToString(i), WS>>]

Histories ==
  UNION { { [i \in 1..n |-> Message(i, rs[i])] : rs \in [1..n -> Roles] } : n \in 0..MaxHistory }

\* values fetch can throw
ThrownValues ==
  { Err("TypeError", <<"Failed to fetch">>),
    Err("TypeError", <<"NetworkError when attempting to fetch resource.">>),
    Err("nonError", <<>>) }

Chars(n) == [i \in 1..n |-> "x"]

Text(t) == [text |-> Some(t)]

NoText == [text |-> Absent]

Json(candidates, choices) == [valid |-> TRUE, candidates |-> candidates, choices |-> choices]

Candidate(parts) == [content |-> Some([parts |-> Some(parts)])]

Choice(content) == [message |-> Some([content |-> Some(content)])]

\* response bodies as response.json() sees them; each carries the field of
\* both wire formats, so one body exercises either path
JsonBodies ==
  { [valid |-> FALSE, candidates |-> Absent, choices |-> Absent],
    Json(Absent, Absent),
    Json(Some(<<>>), Some(<<>>)),
    Json(Some(<<[content |-> Absent]>>), Some(<<[message |-> Absent]>>)),
    Json(Some(<<[content |-> Some([parts |-> Absent])]>>), Some(<<[message |-> Some([content |-> Absent])]>>)),
    Json(Some(<<Candidate(<<>>)>>), Some(<<Choice(<<>>)>>)),
    Json(Some(<<Candidate(<<Text(<<WS>>), NoText, Text(<<WS, WS>>)>>)>>), Some(<<Choice(<<WS, WS>>)>>)),
    Json(Some(<<Candidate(<<Text(<<WS, "Hello">>), NoText, Text(<<"world", WS>>)>>),
                Candidate(<<Text(<<"other">>)>>)>>),
         Some(<<Choice(<<WS, "ok", WS>>), Choice(<<"other">>)>>)),
    Json(Some(<<Candidate(<<Text(<<WS, "Hello", WS>>), NoText, Text(<<WS, "world", WS>>)>>),
                Candidate(<<Text(<<"other">>)>>)>>),
         Some(<<Choice(<<"Hello", WS, WS, "world">>)>>)) }

NoJson == [valid |-> FALSE, candidates |-> Absent, choices |-> Absent]

ErrorStatuses == {300, 400, 401, 403, 404, 429, 500}

\* error bodies as response.text() sees them, around the 220 characters kept
ErrorTexts == { <<>>, <<"q", "u", "o", "t", "a">>, Chars(BriefLen), Chars(BriefLen + 1) }

Responses ==
  { [status |-> st, text |-> t, json |-> NoJson] : st \in ErrorStatuses, t \in {<<"q", "u", "o", "t", "a">>} }
    \cup { [status |-> st, text |-> t, json |-> NoJson] : st \in {401, 429, 500}, t \in ErrorTexts }
    \cup { [status |-> 200, text |-> <<>>, json |-> j] : j \in JsonBodies }
    \cup { [status |-> 299, text |-> <<>>, json |-> Json(Absent, Some(<<Choice(<<"ok">>)>>))] }

NoResponse == [status |-> 0, text |-> <<>>, json |-> NoJson]

Threw(thrown) == [type |-> "throw", thrown |-> thrown, response |-> NoResponse]

Answered(response) == [type |-> "response", thrown |-> NoError, response |-> response]

(***************************************************************************)
(* The state machine.  pc is the position of the one invocation in         *)
(* progress: idle, fetching (awaiting safeFetch) or done (settled, not yet *)
(* handed back).  netCalls counts the calls of fetch of this invocation,   *)
(* request is the request it handed to fetch, net is what fetch did.       *)
(* The dispatcher keeps nothing between invocations and two invocations    *)
(* share no variable, so one invocation at a time shows them all.          *)
(***************************************************************************)
\* the invocation before the current one, as the caller saw it; NoCall
\* before the first
NoCall ==
  [op |-> "none", settings |-> NoSettings, messages |-> <<>>, request |-> Absent,
   net |-> Absent, outcome |-> Absent]

\* no invocation in progress
DispatcherIdle ==
  /\ pc = "idle"
  /\ op = "none"
  /\ settings = NoSettings
  /\ messages = <<>>
  /\ request = Absent
  /\ netCalls = 0
  /\ net = Absent
  /\ outcome = Absent

\* no run of the automation engine in progress
AutomationIdle ==
  /\ runPc = "idle"
  /\ userPrompt = <<>>
  /\ tasks = <<>>
  /\ taskIndex = 0
  /\ outputs = <<>>

newMessage(role, content) == [role |-> role, content |-> content]

Greeting ==
  newMessage("assistant",
             <<"GOD online. I can assist with planning, coding, and safe automation flows.">>)

Event(name, requestId, decision) == [name |-> name, requestId |-> requestId, decision |-> decision]

\* the console as it is mounted, but for the audit log
AppIdle ==
  /\ busy = FALSE
  /\ appMessages = <<Greeting>>
  /\ pendingRequests = <<>>
  /\ turns = <<>>
  /\ nextId = 1
  /\ lastEvent = Event("other", 0, "none")

Init ==
  /\ envKey \in EnvKeys
  /\ DispatcherIdle
  /\ prev = NoCall
  /\ AutomationIdle
  /\ AppIdle
  /\ auditLog = <<>>

\* what both operations do with the result of Send
Begin(o, msgs, s, sent) ==
  /\ op' = o
  /\ settings' = s
  /\ messages' = msgs
  /\ net' = Absent
  /\ outcome' = sent.outcome
  /\ request' = sent.request
  /\ netCalls' = IF IsSome(sent.request) THEN netCalls + 1 ELSE netCalls
  /\ pc' = IF IsSome(sent.request) THEN "fetching" ELSE "done"
  /\ UNCHANGED <<envKey, prev, outside>>

requestChatCompletion ==
  /\ pc = "idle"
  /\ \E msgs \in Histories, s \in Settings :
       Begin("complete", msgs, s, requestChatCompletionSend(msgs, s))

testConnector ==
  /\ pc = "idle"
  /\ \E s \in Settings : Begin("test", <<>>, s, testConnectorSend(s))

\* fetch throws: safeFetch's catch
safeFetchCatch ==
  /\ pc = "fetching"
  /\ \E thrown \in ThrownValues :
       /\ net' = Some(Threw(thrown))
       /\ outcome' = Some(Rejected(safeFetchError(thrown, Get(request).provider)))
  /\ pc' = "done"
  /\ UNCHANGED <<envKey, op, settings, messages, request, netCalls, prev, outside>>

\* fetch resolves and the awaiting operation goes on to its end
Resume(response, settled) ==
  /\ net' = Some(Answered(response))
  /\ outcome' = Some(settled)
  /\ pc' = "done"
  /\ UNCHANGED <<envKey, op, settings, messages, request, netCalls, prev, outside>>

requestChatCompletionResume ==
  /\ pc = "fetching"
  /\ op = "complete"
  /\ \E response \in Responses :
       Resume(response, requestChatCompletionReceive(Get(request).provider, response))

testConnectorResume ==
  /\ pc = "fetching"
  /\ op = "test"
  /\ \E response \in Responses :
       Resume(response, testConnectorReceive(Get(request).provider, response))

\* the caller takes the result; nothing of the invocation is kept
Return ==
  /\ pc = "done"
  /\ pc' = "idle"
  /\ op' = "none"
  /\ settings' = NoSettings
  /\ messages' = <<>>
  /\ request' = Absent
  /\ netCalls' = 0
  /\ net' = Absent
  /\ outcome' = Absent
  /\ UNCHANGED <<envKey, prev, outside>>

Next ==
  \/ requestChatCompletion
  \/ testConnector
  \/ safeFetchCatch
  \/ requestChatCompletionResume
  \/ testConnectorResume
  \/ Return

Spec == Init /\ [][Next]_vars

(***************************************************************************)
(* Sequences of invocations.  The caller (App.tsx) awaits one invocation   *)
(* and may start the next with any settings; callReturn hands the result   *)
(* back and keeps the whole invocation in prev, so that two invocations of *)
(* one run can be compared.  The inputs are a part of those of Spec: the   *)
(* three presets, a Gemini endpoint behind a local proxy, one key of each  *)
(* shape.                                                                  *)
(***************************************************************************)
CallEndpoints ==
  { <<"http://", "localhost:11434">> \o OllamaPath,
    <<"https://", "api.openai.com">> \o OllamaPath,
    <<"https://", GeminiHost>> \o GeminiPath,
    <<"http://", "LOCALHOST:11434", "/proxy/", GeminiHost>> \o GeminiPath }

CallSettings ==
  [endpoint : CallEndpoints, model : {<<"tinyllama">>},
   apiKey : {<<>>, <<"AIza", "KEY">>}, systemPrompt : {<<>>}]

CallHistories == { h \in Histories : \A i \in 1..Len(h) : h[i].role = "user" /\ i = 1 }

CallThrownValues == { Err("TypeError", <<"Failed to fetch">>) }

CallResponses ==
  { r \in Responses :
      \/ r.status = 401 /\ r.text = <<>>
      \/ r.status = 200 /\ IsSome(r.json.candidates) /\ Len(Get(r.json.candidates)) = 2
      \/ r.status = 299 }

completeCall ==
  /\ pc = "idle"
  /\ \E msgs \in CallHistories, s \in CallSettings :
       Begin("complete", msgs, s, requestChatCompletionSend(msgs, s))

testCall ==
  /\ pc = "idle"
  /\ \E s \in CallSettings : Begin("test", <<>>, s, testConnectorSend(s))

callFetchCatch ==
  /\ pc = "fetching"
  /\ \E thrown \in CallThrownValues :
       /\ net' = Some(Threw(thrown))
       /\ outcome' = Some(Rejected(safeFetchError(thrown, Get(request).provider)))
  /\ pc' = "done"
  /\ UNCHANGED <<envKey, op, settings, messages, request, netCalls, prev, outside>>

completeCallResume ==
  /\ pc = "fetching"
  /\ op = "complete"
  /\ \E response \in CallResponses :
       Resume(response, requestChatCompletionReceive(Get(request).provider, response))

testCallResume ==
  /\ pc = "fetching"
  /\ op = "test"
  /\ \E response \in CallResponses :
       Resume(response, testConnectorReceive(Get(request).provider, response))

callReturn ==
  /\ pc = "done"
  /\ prev' = [op |-> op, settings |-> settings, messages |-> messages,
              request |-> request, net |-> net, outcome |-> outcome]
  /\ pc' = "idle"
  /\ op' = "none"
  /\ settings' = NoSettings
  /\ messages' = <<>>
  /\ request' = Absent
  /\ netCalls' = 0
  /\ net' = Absent
  /\ outcome' = Absent
  /\ UNCHANGED <<envKey, outside>>

CallsNext ==
  \/ completeCall
  \/ testCall
  \/ callFetchCatch
  \/ completeCallResume
  \/ testCallResume
  \/ callReturn

SpecCalls == Init /\ [][CallsNext]_vars


(***************************************************************************)
(* The automation engine, src/src/automation.ts.  Texts here are sequences *)
(* of characters.  A pattern of the code is the operator that finds its    *)
(* matches as the regular-expression engine does: leftmost first, greedy,  *)
(* and, for a global pattern, each search starting after the match before. *)
(***************************************************************************)
\* the least element of a non-empty set of positions
First(S) == CHOOSE x \in S : \A y \in S : x <= y

\* the greatest
Last(S) == CHOOSE x \in S : \A y \in S : y <= x

\* list.join(sep)
RECURSIVE Join(_, _)
Join(list, sep) ==
  IF list = <<>> THEN <<>>
  ELSE IF Len(list) = 1 THEN list[1]
  ELSE list[1] \o sep \o Join(Tail(list), sep)

\* the last position of the run of non-space characters that holds j
RunEnd(s, j) ==
  LET stops == {k \in (j + 1)..Len(s) : IsSpace(s[k])} IN
  IF stops = {} THEN Len(s) ELSE First(stops) - 1

\* the first position from q on that holds no white space, Len(s) + 1 if none
SkipSpace(s, q) ==
  LET others == {k \in q..Len(s) : ~IsSpace(s[k])} IN
  IF others = {} THEN Len(s) + 1 ELSE First(others)

\* https?:\/\/ at position i: the position after it, 0 when it is not there
SchemeEnd(s, i) ==
  IF StartsAt(s, i, <<"h", "t", "t", "p", "s", ":", "/", "/">>) THEN i + 8
  ELSE IF StartsAt(s, i, <<"h", "t", "t", "p", ":", "/", "/">>) THEN i + 7
  ELSE 0

\* /https?:\/\/[^\s]+/ matches at i
URLMatchAt(s, i) ==
  LET e == SchemeEnd(s, i) IN e > 0 /\ e <= Len(s) /\ ~IsSpace(s[e])

\* match(/https?:\/\/[^\s]+/g) from position p on
RECURSIVE URLMatches(_, _)
URLMatches(s, p) ==
  LET at == {i \in p..Len(s) : URLMatchAt(s, i)} IN
  IF at = {} THEN <<>>
  ELSE LET i == First(at)
           e == RunEnd(s, SchemeEnd(s, i))
       IN <<SubSeq(s, i, e)>> \o URLMatches(s, e + 1)

\* match(/[^?\n][^?]*\?/g) from position p on: a match starts at a character
\* that is neither ? nor a line feed and runs to the next ?
RECURSIVE QuestionSpans(_, _)
QuestionSpans(s, p) ==
  LET marks == {j \in p..Len(s) : s[j] = "?"}
      at == {i \in p..Len(s) : s[i] \notin {"?", "\n"} /\ \E j \in marks : j > i}
  IN IF at = {} THEN <<>>
     ELSE LET i == First(at)
              j == First({k \in marks : k > i})
          IN <<SubSeq(s, i, j)>> \o QuestionSpans(s, j + 1)

\* .map((question) => question.trim()).filter(Boolean)
questionMatchesOf(s) ==
  LET spans == QuestionSpans(s, 1)
      trimmed == [n \in 1..Len(spans) |-> Trim(spans[n])]
  IN SelectSeq(trimmed, LAMBDA q : q # <<>>)

\* \s*[:\-]\s*([^\n]+) from position k on: the group, Absent when it fails.
\* The white space before the mark is taken whole; after the mark \s* gives
\* back what it took until the group finds a character that is no line feed.
AnswerTail(s, k) ==
  LET m == SkipSpace(s, k) IN
  IF m > Len(s) \/ s[m] \notin {":", "-"} THEN Absent
  ELSE LET w == SkipSpace(s, m + 1)
           starts == {g \in (m + 1)..w : g <= Len(s) /\ s[g] # "\n"}
       IN IF starts = {} THEN Absent
          ELSE LET g == Last(starts)
                   feeds == {n \in g..Len(s) : s[n] = "\n"}
                   e == IF feeds = {} THEN Len(s) ELSE First(feeds) - 1
               IN Some(SubSeq(s, g, e))

\* the word w at position i, letter case ignored: the position after it, or 0
WordEnd(s, i, w) ==
  IF i + Len(w) - 1 <= Len(s) /\ ToLowerCase(SubSeq(s, i, i + Len(w) - 1)) = w
  THEN i + Len(w) ELSE 0

\* (?:correct(?:\s+answer)?|answer)\s*[:\-]\s*([^\n]+) at position i, the
\* alternatives in the order the engine tries them
AnswerMatchAt(s, i) ==
  LET c == WordEnd(s, i, <<"c", "o", "r", "r", "e", "c", "t">>)
      sp == IF c > 0 THEN SkipSpace(s, c) ELSE 0
      ca == IF c > 0 /\ sp > c THEN WordEnd(s, sp, <<"a", "n", "s", "w", "e", "r">>) ELSE 0
      a == WordEnd(s, i, <<"a", "n", "s", "w", "e", "r">>)
  IN IF ca > 0 /\ IsSome(AnswerTail(s, ca)) THEN AnswerTail(s, ca)
     ELSE IF c > 0 /\ IsSome(AnswerTail(s, c)) THEN AnswerTail(s, c)
     ELSE IF a > 0 THEN AnswerTail(s, a)
     ELSE Absent

\* match(/(?:correct(?:\s+answer)?|answer)\s*[:\-]\s*([^\n]+)/i)?.[1]
correctAnswerGroup(s) ==
  LET at == {i \in 1..Len(s) : IsSome(AnswerMatchAt(s, i))} IN
  IF at = {} THEN Absent ELSE AnswerMatchAt(s, First(at))

\* the character U+0060, which a TLA+ string cannot hold
Grave == "grave accent"

Fence == <<Grave, Grave, Grave>>

\* the matches of the fenced-code pattern (three grave accents, the fewest
\* characters of any kind, three grave accents; global) from p on, counted
RECURSIVE CodeBlocks(_, _)
CodeBlocks(s, p) ==
  LET fences == {i \in p..Len(s) : StartsAt(s, i, Fence)}
      opens == {i \in fences : \E j \in fences : j >= i + 3}
  IN IF opens = {} THEN 0
     ELSE LET i == First(opens)
              j == First({k \in fences : k >= i + 3})
          IN 1 + CodeBlocks(s, j + 3)

\* s.split(/\s+/) of a trimmed text: its runs of non-space characters, and
\* the one empty word for the empty text
RECURSIVE WordsFrom(_, _)
WordsFrom(s, p) ==
  IF p > Len(s) THEN <<>>
  ELSE LET e == RunEnd(s, p) IN <<SubSeq(s, p, e)>> \o WordsFrom(s, SkipSpace(s, e + 1))

SplitOnSpace(s) == IF s = <<>> THEN << <<>> >> ELSE WordsFrom(s, 1)

\* [...new Set(words)]: the first of each, in the order seen
RECURSIVE Unique(_)
Unique(list) ==
  IF list = <<>> THEN <<>>
  ELSE <<list[1]>> \o Unique(SelectSeq(Tail(list), LAMBDA w : w # list[1]))


(***************************************************************************)
(* runAutomation.  A block of the output is a sequence of pieces: the      *)
(* fixed texts of the code as single tokens, the task's name and command   *)
(* as single tokens, and the characters taken from the prompt.             *)
(***************************************************************************)
Task(id, name, command, enabled) ==
  [id |-> id, name |-> name, command |-> command, enabled |-> enabled]

defaultTasks ==
  << Task("summarize", "Summarize Input", "Extract key points and action items.", TRUE),
     Task("roadmap", "Generate Roadmap", "Create a short execution plan.", TRUE),
     Task("safety-check", "Safety Check",
          "Block requests for privilege escalation or system exploitation.", TRUE),
     Task("answer-web-questions", "Answer Web Questions",
          "Extract and answer questions from the current webpage content.", TRUE),
     Task("extract-links", "Extract Links",
          "Pull all hyperlinks and URLs from the provided content.", TRUE),
     Task("faq-generator", "FAQ Generator",
          "Create a frequently asked questions list from the content.", TRUE),
     Task("code-extractor", "Code Extractor",
          "Extract code snippets and provide explanations.", TRUE),
     Task("key-phrases", "Key Phrases",
          "Extract and list important keywords and topics.", TRUE) >>

SummaryLen == 300

EchoLen == 200

KeyPhraseLen == 5

KeyPhraseCount == 5

\* mutant of Label: the block is labelled with the task's id
LabelById(task) == <<"[", task.id, "]">>

\* `[${task.name}]`
Label(task) == <<"[", task.name, "]">>

summarizeBlock(task, cleanedPrompt) ==
  Label(task) \o <<"\n">>
    \o (IF Len(cleanedPrompt) > SummaryLen
        THEN Slice0(cleanedPrompt, SummaryLen) \o <<"...">>
        ELSE cleanedPrompt)

roadmapBlock(task) ==
  Label(task)
    \o <<"\n1. Understand the problem\n2. Identify key steps\n3. Execute and validate\n4. Document results">>

blocked ==
  << <<"a", "d", "m", "i", "n", " ", "r", "i", "g", "h", "t", "s">>,
     <<"p", "r", "i", "v", "i", "l", "e", "g", "e", " ", "e", "s", "c", "a",
       "l", "a", "t", "i", "o", "n">>,
     <<"r", "e", "v", "e", "r", "s", "e", " ", "e", "n", "g", "i", "n", "e", "e", "r">> >>

\* mutant of safetyCheckBlock: the prompt is searched as written
safetyCheckBlockCaseSensitive(task, cleanedPrompt) ==
  LET matched == SelectSeq(blocked, LAMBDA word : IncludesText(cleanedPrompt, word)) IN
  Label(task) \o <<"\n">>
    \o (IF Len(matched) = 0 THEN <<"Safe to execute">>
        ELSE <<"Needs manual review (matched: ">> \o Join(matched, <<", ">>) \o <<")">>)

safetyCheckBlock(task, cleanedPrompt) ==
  LET lower == ToLowerCase(cleanedPrompt)
      matched == SelectSeq(blocked, LAMBDA word : IncludesText(lower, word))
  IN
  Label(task) \o <<"\n">>
    \o (IF Len(matched) = 0 THEN <<"Safe to execute">>
        ELSE <<"Needs manual review (matched: ">> \o Join(matched, <<", ">>) \o <<")">>)

\* questionMatches.map((q) => `- ${q}`).join('\n')
Listed(items) == Join([n \in 1..Len(items) |-> <<"- ">> \o items[n]], <<"\n">>)

\* mutant of answerWebQuestionsBlock: the answer found is reported beside a
\* URL too
answerWebQuestionsBlockAnswerWithURL(task, cleanedPrompt) ==
  LET urls == URLMatches(cleanedPrompt, 1)
      questionMatches == questionMatchesOf(cleanedPrompt)
      correctAnswerMatch == correctAnswerGroup(cleanedPrompt)
      extractedAnswer == IF IsSome(correctAnswerMatch) THEN Trim(Get(correctAnswerMatch)) ELSE <<>>
      found == IF extractedAnswer # <<>>
               THEN <<"\nPossible answer found in provided content: ">> \o extractedAnswer
               ELSE <<>>
  IN
  IF urls # <<>>
  THEN Label(task) \o <<"\n", "Webpage detected: ">> \o urls[1]
         \o (IF Len(questionMatches) > 0
             THEN <<"\nDetected question(s):\n">> \o Listed(questionMatches)
             ELSE <<>>)
         \o found
         \o <<"\nUse the Paste Page Text box for exact grounded answers, or let GOD try to fetch page content automatically.">>
  ELSE IF Len(questionMatches) > 0
  THEN Label(task) \o <<"\n", "Detected ", ToString(Len(questionMatches)), " question(s).\n", "Questions:\n">>
         \o Listed(questionMatches)
         \o found
         \o (IF extractedAnswer # <<>> THEN <<>>
             ELSE <<"\nNo explicit \"correct answer\" text found. Paste more of the page content or metadata.">>)
  ELSE Label(task) \o <<"\nNo questions detected in input.">>

\* the first match of the pattern without g is the first of its matches
answerWebQuestionsBlock(task, cleanedPrompt) ==
  LET urls == URLMatches(cleanedPrompt, 1)
      questionMatches == questionMatchesOf(cleanedPrompt)
      correctAnswerMatch == correctAnswerGroup(cleanedPrompt)
  IN
  IF urls # <<>>
  THEN Label(task) \o <<"\n", "Webpage detected: ">> \o urls[1]
         \o (IF Len(questionMatches) > 0
             THEN <<"\nDetected question(s):\n">> \o Listed(questionMatches)
             ELSE <<>>)
         \o <<"\nUse the Paste Page Text box for exact grounded answers, or let GOD try to fetch page content automatically.">>
  ELSE IF Len(questionMatches) > 0
  THEN LET extractedAnswer ==
             IF IsSome(correctAnswerMatch) THEN Trim(Get(correctAnswerMatch)) ELSE <<>>
       IN Label(task) \o <<"\n", "Detected ", ToString(Len(questionMatches)), " question(s).\n", "Questions:\n">>
            \o Listed(questionMatches)
            \o (IF extractedAnswer # <<>>
                THEN <<"\nPossible answer found in provided content: ">> \o extractedAnswer
                ELSE <<>>)
            \o (IF extractedAnswer # <<>> THEN <<>>
                ELSE <<"\nNo explicit \"correct answer\" text found. Paste more of the page content or metadata.">>)
  ELSE Label(task) \o <<"\nNo questions detected in input.">>

\* mutant of extractLinksBlock: a link that occurs twice is listed once
extractLinksBlockDistinct(task, cleanedPrompt) ==
  LET urlMatch == Unique(URLMatches(cleanedPrompt, 1)) IN
  IF Len(urlMatch) > 0
  THEN Label(task) \o <<"\n", "Found ", ToString(Len(urlMatch)), " link(s):\n">> \o Listed(urlMatch)
  ELSE Label(task) \o <<"\nNo links found in input.">>

extractLinksBlock(task, cleanedPrompt) ==
  LET urlMatch == URLMatches(cleanedPrompt, 1) IN
  IF Len(urlMatch) > 0
  THEN Label(task) \o <<"\n", "Found ", ToString(Len(urlMatch)), " link(s):\n">> \o Listed(urlMatch)
  ELSE Label(task) \o <<"\nNo links found in input.">>

faqGeneratorBlock(task) ==
  Label(task)
    \o <<"\nFAQ structure would extract Q&A patterns from content. Manual extraction recommended for accuracy.">>

codeExtractorBlock(task, cleanedPrompt) ==
  LET codeMatch == CodeBlocks(cleanedPrompt, 1) IN
  IF codeMatch > 0
  THEN Label(task) \o <<"\n", "Found ", ToString(codeMatch), " code block(s).">>
  ELSE Label(task) \o <<"\nNo code blocks detected.">>

\* mutant of keyPhrasesBlock: the words are cut to five before the repeated
\* ones are dropped
keyPhrasesBlockCutFirst(task, cleanedPrompt) ==
  LET words == SelectSeq(SplitOnSpace(cleanedPrompt), LAMBDA w : Len(w) > KeyPhraseLen)
      unique == Unique(Slice0(words, KeyPhraseCount))
  IN Label(task) \o <<"\n", "Key terms: ">> \o Join(unique, <<", ">>)

keyPhrasesBlock(task, cleanedPrompt) ==
  LET words == SelectSeq(SplitOnSpace(cleanedPrompt), LAMBDA w : Len(w) > KeyPhraseLen)
      unique == Slice0(Unique(words), KeyPhraseCount)
  IN Label(task) \o <<"\n", "Key terms: ">> \o Join(unique, <<", ">>)

defaultBlock(task) == Label(task) \o <<" ", task.command>>

\* the switch on task.id
TaskBlock(task, cleanedPrompt) ==
  CASE task.id = "summarize" -> summarizeBlock(task, cleanedPrompt)
    [] task.id = "roadmap" -> roadmapBlock(task)
    [] task.id = "safety-check" -> safetyCheckBlock(task, cleanedPrompt)
    [] task.id = "answer-web-questions" -> answerWebQuestionsBlock(task, cleanedPrompt)
    [] task.id = "extract-links" -> extractLinksBlock(task, cleanedPrompt)
    [] task.id = "faq-generator" -> faqGeneratorBlock(task)
    [] task.id = "code-extractor" -> codeExtractorBlock(task, cleanedPrompt)
    [] task.id = "key-phrases" -> keyPhrasesBlock(task, cleanedPrompt)
    [] OTHER -> defaultBlock(task)

\* mutant of activeTasksOf: the disabled tasks are kept
activeTasksOfAll(ts) == ts

\* tasks.filter((task) => task.enabled)
activeTasksOf(ts) == SelectSeq(ts, LAMBDA task : task.enabled)

\* mutant of EchoBlocks: the echo is pushed for every prompt
EchoBlocksAlways(cleanedPrompt) ==
  << <<"\nInput: \"">> \o Slice0(cleanedPrompt, EchoLen)
       \o (IF Len(cleanedPrompt) > EchoLen THEN <<"...">> ELSE <<>>) \o <<"\"">> >>

\* what the end of runAutomation pushes: the echo of the prompt, or nothing
EchoBlocks(cleanedPrompt) ==
  IF cleanedPrompt # <<>>
  THEN << <<"\nInput: \"">> \o Slice0(cleanedPrompt, EchoLen)
            \o (IF Len(cleanedPrompt) > EchoLen THEN <<"...">> ELSE <<>>) \o <<"\"">> >>
  ELSE <<>>

NoTasksBlock == <<"No automation tasks enabled.">>


(***************************************************************************)
(* Inputs of runAutomation: the prompts, and the task lists of at most     *)
(* MaxTasks tasks over the built-in tasks, a task a user added, a built-in *)
(* task under another name, and three disabled tasks.                      *)
(***************************************************************************)
Prompts ==
  {
    \* the empty prompt
    <<>>,
    \* white space only
    <<" ", " ", "\n">>,
    \* white space around two words
    <<" ", "h", "e", "l", "l", "o", " ", "w", "o", "r", "l", "d", " ", "\n">>,
    \* one question and its answer
    <<"W", "h", "a", "t", " ", "i", "s", " ", "2", "+", "2", "?", " ", "A",
      "n", "s", "w", "e", "r", ":", " ", "4">>,
    \* two links
    <<"V", "i", "s", "i", "t", " ", "h", "t", "t", "p", "s", ":", "/", "/",
      "e", "x", "a", "m", "p", "l", "e", ".", "c", "o", "m", " ", "a", "n",
      "d", " ", "h", "t", "t", "p", "s", ":", "/", "/", "t", "e", "s", "t",
      ".", "o", "r", "g">>,
    \* two review terms, in upper case, the later one of the list first
    <<"R", "E", "V", "E", "R", "S", "E", " ", "E", "N", "G", "I", "N", "E",
      "E", "R", " ", "i", "t", ",", " ", "t", "h", "e", "n", " ", "g", "e",
      "t", " ", "A", "d", "m", "i", "n", " ", "R", "i", "g", "h", "t", "s">>,
    \* one review term twice
    <<"a", "d", "m", "i", "n", " ", "r", "i", "g", "h", "t", "s", " ", "a",
      "n", "d", " ", "A", "D", "M", "I", "N", " ", "R", "I", "G", "H", "T",
      "S">>,
    \* a review term of App.tsx only
    <<"n", "e", "e", "d", " ", "a", "d", "m", "i", "n", "i", "s", "t", "r",
      "a", "t", "o", "r", " ", "r", "i", "g", "h", "t", "s">>,
    \* one review term as written
    <<"p", "r", "i", "v", "i", "l", "e", "g", "e", " ", "e", "s", "c", "a",
      "l", "a", "t", "i", "o", "n">>,
    \* a link, questions and an answer
    <<"S", "e", "e", " ", "h", "t", "t", "p", "s", ":", "/", "/", "x", ".",
      "i", "o", "/", "a", "?", "b", "=", "1", " ", "W", "h", "a", "t", " ",
      "n", "o", "w", "?", " ", "a", "n", "s", "w", "e", "r", ":", " ", "n",
      "o">>,
    \* two questions on two lines, no answer
    <<"I", "s", " ", "i", "t", "?", "\n", "W", "h", "y", "?">>,
    \* an answer without a question
    <<"c", "o", "r", "r", "e", "c", "t", " ", "a", "n", "s", "w", "e", "r",
      " ", "-", " ", "4", "2">>,
    \* a scheme in upper case
    <<"H", "T", "T", "P", "S", ":", "/", "/", "U", "P", ".", "C", "O", "M",
      " ", "o", "k", "?">>,
    \* an answer mark with nothing behind it
    <<"Q", "?", " ", "A", "n", "s", "w", "e", "r", ":">>,
    \* the answer on a later line
    <<"w", "h", "y", "?", " ", "t", "h", "e", " ", "a", "n", "s", "w", "e",
      "r", ":", "\n", "\n", " ", "y", "e", "s">>,
    \* the word correct alone
    <<"I", "s", " ", "t", "h", "i", "s", " ", "c", "o", "r", "r", "e", "c",
      "t", ":", " ", "y", "e", "s", "?">>,
    \* question marks only
    <<"?", "?", "\n", "?">>,
    \* a scheme without a host, then one link twice
    <<"h", "t", "t", "p", ":", "/", "/", " ", "x", "?", " ", "h", "t", "t",
      "p", ":", "/", "/", "a", " ", "h", "t", "t", "p", ":", "/", "/", "a">>,
    \* two fenced blocks and an open fence
    <<Grave, Grave, Grave, "j", "s", Grave, Grave, Grave, " ", "a", "n", "d", " ", Grave,
      Grave, Grave, "p", "y", "\n", Grave, Grave, Grave, " ", "o", "r", " ", Grave, Grave,
      Grave>>,
    \* nine words, seven distinct long ones
    <<"a", "l", "p", "h", "a", "b", "e", "t", " ", "b", "a", "n", "a", "n",
      "a", " ", "a", "l", "p", "h", "a", "b", "e", "t", " ", "k", "i", "w",
      "i", " ", "c", "h", "e", "r", "r", "i", "e", "s", " ", "d", "u", "r",
      "i", "a", "n", "s", "\t", "e", "g", "g", "p", "l", "a", "n", "t", " ",
      "f", "i", "g", "u", "r", "i", "n", "e", " ", "g", "r", "a", "p", "e",
      "f", "r", "u", "i", "t">>,
    \* two answer lines
    <<"C", "o", "r", "r", "e", "c", "t", " ", " ", "A", "n", "s", "w", "e",
      "r", " ", ":", " ", "i", "t", " ", "i", "s", " ", "4", " ", "\n", "n",
      "e", "x", "t", "?", " ", "a", "n", "s", "w", "e", "r", ":", " ", "5">>,
    \* a link that starts inside a word and holds a second scheme, and a
    \* scheme with nothing behind it
    <<"s", "e", "e", ":", "h", "t", "t", "p", ":", "/", "/", "a", ",", "h",
      "t", "t", "p", ":", "/", "/", "b", " ", "H", "T", "T", "P", ":", "/",
      "/", "c", " ", "h", "t", "t", "p", "s", ":", "/", "/">>,
    \* 200 characters
    Chars(200),
    \* 201 characters
    Chars(201),
    \* 300 characters
    Chars(300),
    \* 301 characters
    Chars(301) }

\* every task is run on every prompt; the longer task lists are run on
\* these: empty, white space only, and text with white space around it
OrderPrompts == { p \in Prompts : Len(p) <= 3 \/ p[1] = WS }

UserTask(enabled) == Task("0f8fad5b-d9cb-469f-a165-70867728950e", "My Task", "Do my work.", enabled)

TaskPool ==
  { defaultTasks[n] : n \in 1..Len(defaultTasks) }
    \cup { UserTask(TRUE), UserTask(FALSE),
           Task("summarize", "Renamed", "Extract key points and action items.", TRUE),
           Task("summarize", "Summarize Input", "Extract key points and action items.", FALSE),
           Task("safety-check", "Safety Check",
                "Block requests for privilege escalation or system exploitation.", FALSE) }

TaskListsOf(n) == UNION { [1..k -> TaskPool] : k \in 0..n }

RunInputs ==
  { [prompt |-> p, tasks |-> ts] : p \in Prompts, ts \in TaskListsOf(1) }
    \cup { [prompt |-> p, tasks |-> ts] : p \in OrderPrompts, ts \in TaskListsOf(MaxTasks) }

(***************************************************************************)
(* One run of the engine.  runPc is idle, waiting (in wait(120) before the *)
(* task at taskIndex + 1 of the enabled tasks) or returned.  The step      *)
(* after the last wait pushes the last block and the echo and returns.     *)
(***************************************************************************)
dispatcherVars == <<envKey, pc, op, settings, messages, request, netCalls, net, outcome, prev>>

runAutomation ==
  /\ runPc = "idle"
  /\ \E input \in RunInputs :
       /\ userPrompt' = input.prompt
       /\ tasks' = input.tasks
       /\ IF Len(activeTasksOf(input.tasks)) = 0
          THEN outputs' = <<NoTasksBlock>> /\ runPc' = "returned"
          ELSE outputs' = <<>> /\ runPc' = "waiting"
  /\ taskIndex' = 0
  /\ UNCHANGED <<dispatcherVars, appVars>>

\* an iteration of the loop that is not the last
runTask ==
  /\ runPc = "waiting"
  /\ taskIndex + 1 < Len(activeTasksOf(tasks))
  /\ outputs' = Append(outputs, TaskBlock(activeTasksOf(tasks)[taskIndex + 1], Trim(userPrompt)))
  /\ taskIndex' = taskIndex + 1
  /\ UNCHANGED <<dispatcherVars, appVars, runPc, userPrompt, tasks>>

\* the last iteration, the echo and the return
runLastTask ==
  /\ runPc = "waiting"
  /\ taskIndex + 1 = Len(activeTasksOf(tasks))
  /\ outputs' = Append(outputs, TaskBlock(activeTasksOf(tasks)[taskIndex + 1], Trim(userPrompt)))
                  \o EchoBlocks(Trim(userPrompt))
  /\ taskIndex' = taskIndex + 1
  /\ runPc' = "returned"
  /\ UNCHANGED <<dispatcherVars, appVars, userPrompt, tasks>>

\* the caller takes the output
runAutomationReturn ==
  /\ runPc = "returned"
  /\ runPc' = "idle"
  /\ userPrompt' = <<>>
  /\ tasks' = <<>>
  /\ taskIndex' = 0
  /\ outputs' = <<>>
  /\ UNCHANGED <<dispatcherVars, appVars>>

AutomationNext ==
  \/ runAutomation
  \/ runTask
  \/ runLastTask
  \/ runAutomationReturn

\* the engine does not read the startup key
AutomationInit == Init /\ envKey = <<>>

SpecAutomation == AutomationInit /\ [][AutomationNext]_vars


(***************************************************************************)
(* The console, src/src/App.tsx: the prompt turn (submitPrompt) and the    *)
(* approval queue with its audit log.  A turn runs from submitPrompt to    *)
(* the assistant message that ends it, awaiting in turn runAutomation,     *)
(* buildGroundedPromptFromUrl and requestChatCompletion; the handlers of   *)
(* the queue run between its steps.  runAutomation and the dispatcher are  *)
(* taken by their results here.  crypto.randomUUID() is the counter        *)
(* nextId; the time stamps of requests and entries are left out.           *)
(* lastEvent tells whether the step taken last was a call of submitPrompt *)
(* or of decideRequest, and what decideRequest was given.                  *)
(***************************************************************************)
AuditCap == 120

\* the whole result of runAutomation
RunOutput(p, ts) ==
  LET activeTasks == activeTasksOf(ts)
      cleanedPrompt == Trim(p)
  IN IF Len(activeTasks) = 0 THEN <<NoTasksBlock>>
     ELSE [n \in 1..Len(activeTasks) |-> TaskBlock(activeTasks[n], cleanedPrompt)]
            \o EchoBlocks(cleanedPrompt)

blockedInPrompt ==
  << <<"a", "d", "m", "i", "n", " ", "r", "i", "g", "h", "t", "s">>,
     <<"a", "d", "m", "i", "n", "i", "s", "t", "r", "a", "t", "o", "r", " ",
       "r", "i", "g", "h", "t", "s">>,
     <<"p", "r", "i", "v", "i", "l", "e", "g", "e", " ", "e", "s", "c", "a",
       "l", "a", "t", "i", "o", "n">>,
     <<"r", "e", "v", "e", "r", "s", "e", " ", "e", "n", "g", "i", "n", "e", "e", "r">> >>

matchedBlockedOf(trimmed) ==
  LET lower == ToLowerCase(trimmed) IN
  SelectSeq(blockedInPrompt, LAMBDA token : IncludesText(lower, token))

ApprovalRequest(id, title, command, source) ==
  [id |-> id, title |-> title, command |-> command, source |-> source]

AuditEntry(id, found, decision) ==
  [id |-> id, requestId |-> found.id, title |-> found.title, command |-> found.command,
   source |-> found.source, decision |-> decision]

\* value.match(/https?:\/\/[^\s]+/i)?.[0] ?? null
extractFirstUrl(value) ==
  LET lower == ToLowerCase(value)
      at == {i \in 1..Len(value) : URLMatchAt(lower, i)}
  IN IF at = {} THEN Absent
     ELSE LET i == First(at) IN Some(SubSeq(value, i, RunEnd(value, SchemeEnd(lower, i))))

Grounded(originalPrompt, intro, text) ==
  [promptForModel |->
     originalPrompt \o <<intro>> \o text
       \o <<"\n\nImportant: Answer ONLY using the grounding content above. If an answer is not present, respond: \"Not found in provided page content.\"">>,
   blockerMessage |-> Absent]

Blocked(originalPrompt, blockerMessage) ==
  [promptForModel |-> originalPrompt, blockerMessage |-> Some(blockerMessage)]

PageStatuses == {403}

\* what buildGroundedPromptFromUrl can return: for pasted page text, for a
\* prompt without a URL, and for each thing the fetch of the page can do.
\* The page texts are shorter than the cuts at 16000 and 12000 characters,
\* and the typographic apostrophes of the messages are written plain.
GroundingResults(originalPrompt, manualPageText) ==
  IF Len(Trim(manualPageText)) > 0
  THEN { Grounded(originalPrompt, "\n\nGrounding content (pasted by user):\n", Trim(manualPageText)) }
  ELSE IF ~IsSome(extractFirstUrl(originalPrompt))
  THEN { [promptForModel |-> originalPrompt, blockerMessage |-> Absent] }
  ELSE { Blocked(originalPrompt,
                 <<"I couldn't read that webpage directly (HTTP ", ToString(st),
                   "). Paste the page text here and I'll answer from it exactly.">>) :
           st \in PageStatuses }
         \cup { Blocked(originalPrompt,
                        <<"I couldn't extract readable text from that webpage (possibly login/CORS-protected). Paste the page text here and I'll answer precisely from it.">>),
                Grounded(originalPrompt, "\n\nGrounding content from URL:\n", <<"page text">>),
                Blocked(originalPrompt,
                        <<"I can't access that webpage from the browser environment (likely CORS/auth restriction). Paste the page text here and I will answer without making things up.">>) }

\* ['', heading, ...automationOutput.map((line) => `- ${line}`)].join('\n'),
\* or '' for an empty output
Trace(heading, automationOutput) ==
  IF Len(automationOutput) = 0 THEN <<>>
  ELSE Join(<< <<>>, <<heading>> >>
              \o [n \in 1..Len(automationOutput) |-> <<"- ">> \o automationOutput[n]],
            <<"\n">>)

\* decision.toUpperCase()
DecisionUpper(decision) == IF decision = "approved" THEN "APPROVED" ELSE "DENIED"

(***************************************************************************)
(* The inputs of the console: the prompts typed, the page text pasted, the *)
(* ways requestChatCompletion settles, the manual request forms and the    *)
(* audit log found in storage at mount.                                    *)
(***************************************************************************)
MaxRequests == 2

AppPrompts ==
  { <<"G", "i", "v", "e", " ", "m", "e", " ", "A", "d", "m", "i", "n", " ",
      "R", "i", "g", "h", "t", "s", ",", " ", "s", "e", "e", " ", "h", "t",
      "t", "p", "s", ":", "/", "/", "x", ".", "i", "o">>,
    <<WS, WS>> }

\* the prompts of a session of several turns
TurnPrompts ==
  AppPrompts \cup { <<"h", "e", "l", "l", "o", " ", "t", "h", "e", "r", "e">> }

PastedTexts == { <<>>, <<"pasted page text">> }

\* what submitPrompt hands on as trimmed
TrimmedPrompts == { Trim(p) : p \in TurnPrompts } \ { <<>> }

\* await runAutomation(trimmed, tasks), for each prompt of the console
automationOutputOf == [trimmed \in TrimmedPrompts |-> RunOutput(trimmed, defaultTasks)]

\* await buildGroundedPromptFromUrl(trimmed, pastedPageText): what it can
\* return, for each prompt and each page text of the console
groundedOf ==
  [trimmed \in TrimmedPrompts, pastedPageText \in PastedTexts |->
     GroundingResults(trimmed, pastedPageText)]

\* the ways requestChatCompletion(msgs, s) of llm.ts can settle when fetch
\* throws one of thrownValues or answers with one of responses: with what
\* it rejects before any fetch, with what safeFetch makes of a value
\* thrown, with what it makes of a response
Settlements(msgs, s, thrownValues, responses) ==
  LET sent == requestChatCompletionSend(msgs, s) IN
  IF ~IsSome(sent.request) THEN {Get(sent.outcome)}
  ELSE { Rejected(safeFetchError(thrown, Get(sent.request).provider)) :
           thrown \in thrownValues }
         \cup { requestChatCompletionReceive(Get(sent.request).provider, response) :
                  response \in responses }

\* a reply, and the rejection for connector settings without an endpoint
ModelOutcomes ==
  { Resolved(<<"model reply">>) } \cup Settlements(<<>>, NoSettings, {}, {})

RequestForms ==
  { [title |-> <<WS, "Reset a password", WS>>, command |-> <<"net user student", WS>>],
    [title |-> <<WS>>, command |-> <<"whoami">>] }

\* an entry written in an earlier session, its request id below every id
\* handed out in this one
StoredEntry(n) ==
  [id |-> <<"entry", 0 - n>>, requestId |-> 0 - n,
   title |-> <<"Stored request">>, command |-> <<"stored command">>,
   source |-> "manual", decision |-> "denied"]

StoredLogs == { <<>>, [n \in 1..(AuditCap - 1) |-> StoredEntry(n)] }

\* the prompt has been submitted before: each prompt is typed at most once
Submitted(trimmed) ==
  \E i \in DOMAIN appMessages :
    appMessages[i].role = "user" /\ appMessages[i].content = trimmed

(***************************************************************************)
(* submitPrompt, src/src/App.tsx.  A call that gets past the guard is a    *)
(* prompt turn: it is in turns from then until it returns.  Its first step *)
(* runs to the await of runAutomation, which it has called by then; the    *)
(* later steps run from one await to the next.  The tasks handed to        *)
(* runAutomation are defaultTasks: the task editor is not part of this     *)
(* model.  The handler reads busy and messages as the last render left     *)
(* them, and React renders between two events, so they are read here as    *)
(* they are.                                                               *)
(***************************************************************************)
Turn(trimmed, messagesAtCall) ==
  [pc |-> "runAutomation", trimmed |-> trimmed, messages |-> messagesAtCall,
   automationOutput |-> <<>>, modelMessages |-> <<>>]

\* the sequence without its k-th element
Removed(list, k) == SubSeq(list, 1, k - 1) \o SubSeq(list, k + 1, Len(list))

\* mutant of submitPromptCall: the guard does not read busy
submitPromptCallWhileBusy(p) ==
  /\ LET trimmed == Trim(p)
         matchedBlocked == matchedBlockedOf(trimmed)
         queued == Len(matchedBlocked) > 0
         queuedRequest ==
           ApprovalRequest(nextId, <<"Prompt-based elevated troubleshooting request">>,
                           trimmed, "prompt")
         safetyNote ==
           newMessage("system",
                      <<"Safety note: matched review keywords (">>
                        \o Join(matchedBlocked, <<", ">>)
                        \o <<"). Request was queued for manual approval, but this run continues in classroom mode.">>)
         userMessage == newMessage("user", trimmed)
     IN IF trimmed = <<>>
        THEN UNCHANGED <<busy, appMessages, pendingRequests, turns, nextId>>
        ELSE /\ ~Submitted(trimmed)
             /\ queued => nextId <= MaxRequests
             /\ pendingRequests' = IF queued THEN <<queuedRequest>> \o pendingRequests
                                   ELSE pendingRequests
             /\ nextId' = IF queued THEN nextId + 1 ELSE nextId
             /\ appMessages' = appMessages \o (IF queued THEN <<safetyNote, userMessage>>
                                               ELSE <<userMessage>>)
             /\ busy' = TRUE
             /\ turns' = Append(turns, Turn(trimmed, appMessages))
  /\ UNCHANGED auditLog
  /\ UNCHANGED <<dispatcherVars, automationVars>>

\* submitPrompt with p in the composer, to its first await
submitPromptCall(p) ==
  /\ LET trimmed == Trim(p)
         matchedBlocked == matchedBlockedOf(trimmed)
         queued == Len(matchedBlocked) > 0
         queuedRequest ==
           ApprovalRequest(nextId, <<"Prompt-based elevated troubleshooting request">>,
                           trimmed, "prompt")
         safetyNote ==
           newMessage("system",
                      <<"Safety note: matched review keywords (">>
                        \o Join(matchedBlocked, <<", ">>)
                        \o <<"). Request was queued for manual approval, but this run continues in classroom mode.">>)
         userMessage == newMessage("user", trimmed)
     IN IF trimmed = <<>> \/ busy
        THEN UNCHANGED <<busy, appMessages, pendingRequests, turns, nextId>>
        ELSE /\ ~Submitted(trimmed)
             /\ queued => nextId <= MaxRequests
             /\ pendingRequests' = IF queued THEN <<queuedRequest>> \o pendingRequests
                                   ELSE pendingRequests
             /\ nextId' = IF queued THEN nextId + 1 ELSE nextId
             /\ appMessages' = appMessages \o (IF queued THEN <<safetyNote, userMessage>>
                                               ELSE <<userMessage>>)
             /\ busy' = TRUE
             /\ turns' = Append(turns, Turn(trimmed, appMessages))
  /\ UNCHANGED auditLog
  /\ UNCHANGED <<dispatcherVars, automationVars>>

submitPrompt ==
  /\ \E p \in AppPrompts : submitPromptCall(p)
  /\ lastEvent' = Event("submitPrompt", 0, "none")

\* runAutomation has returned; buildGroundedPromptFromUrl is called
submitPromptAutomated ==
  /\ \E k \in DOMAIN turns :
       /\ turns[k].pc = "runAutomation"
       /\ turns' = [turns EXCEPT
                      ![k].pc = "buildGroundedPromptFromUrl",
                      ![k].automationOutput = automationOutputOf[turns[k].trimmed]]
  /\ lastEvent' = Event("other", 0, "none")
  /\ UNCHANGED <<busy, appMessages, pendingRequests, auditLog, nextId>>
  /\ UNCHANGED <<dispatcherVars, automationVars>>

\* buildGroundedPromptFromUrl has returned: the turn ends on a blocker
\* message, or requestChatCompletion is called
submitPromptGrounded ==
  /\ \E k \in DOMAIN turns :
       /\ turns[k].pc = "buildGroundedPromptFromUrl"
       /\ \E pastedPageText \in PastedTexts :
            \E grounded \in groundedOf[turns[k].trimmed, pastedPageText] :
              IF IsSome(grounded.blockerMessage)
              THEN /\ appMessages' =
                        appMessages \o
                          <<newMessage("assistant",
                                       Get(grounded.blockerMessage)
                                         \o Trace("Automation trace:", turns[k].automationOutput))>>
                   /\ busy' = FALSE
                   /\ turns' = Removed(turns, k)
              ELSE /\ turns' = [turns EXCEPT
                                  ![k].pc = "requestChatCompletion",
                                  ![k].modelMessages =
                                     turns[k].messages
                                       \o <<newMessage("user", grounded.promptForModel)>>]
                   /\ UNCHANGED <<busy, appMessages>>
  /\ lastEvent' = Event("other", 0, "none")
  /\ UNCHANGED <<pendingRequests, auditLog, nextId>>
  /\ UNCHANGED <<dispatcherVars, automationVars>>

\* mutant of submitPromptSettled: the catch block leaves the trace out
submitPromptSettledBareError(k, settled) ==
  /\ turns[k].pc = "requestChatCompletion"
  /\ appMessages' =
       appMessages \o
         <<newMessage("assistant",
             IF settled.ok
             THEN Join(<<settled.value, <<>>, <<"Automation trace:">> >>
                         \o [n \in 1..Len(turns[k].automationOutput) |->
                               <<"- ">> \o turns[k].automationOutput[n]],
                       <<"\n">>)
             ELSE <<"Model response unavailable. Running automation-only mode for this request.\n\n">>
                    \o settled.error.message)>>
  /\ busy' = FALSE
  /\ turns' = Removed(turns, k)
  /\ UNCHANGED <<pendingRequests, auditLog, nextId>>
  /\ UNCHANGED <<dispatcherVars, automationVars>>

\* requestChatCompletion has settled for the k-th turn: the answer with the
\* trace, or the message of the catch block; then the finally block
submitPromptSettled(k, settled) ==
  /\ turns[k].pc = "requestChatCompletion"
  /\ appMessages' =
       appMessages \o
         <<newMessage("assistant",
             IF settled.ok
             THEN Join(<<settled.value, <<>>, <<"Automation trace:">> >>
                         \o [n \in 1..Len(turns[k].automationOutput) |->
                               <<"- ">> \o turns[k].automationOutput[n]],
                       <<"\n">>)
             ELSE <<"Model response unavailable. Running automation-only mode for this request.\n\n">>
                    \o settled.error.message
                    \o Trace("Automation trace (fallback mode):", turns[k].automationOutput))>>
  /\ busy' = FALSE
  /\ turns' = Removed(turns, k)
  /\ UNCHANGED <<pendingRequests, auditLog, nextId>>
  /\ UNCHANGED <<dispatcherVars, automationVars>>

submitPromptCompleted ==
  /\ \E k \in DOMAIN turns : \E settled \in ModelOutcomes : submitPromptSettled(k, settled)
  /\ lastEvent' = Event("other", 0, "none")

(***************************************************************************)
(* The approval queue and the audit log.                                   *)
(***************************************************************************)
addManualRequest ==
  /\ \E form \in RequestForms :
       LET title == Trim(form.title)
           command == Trim(form.command)
       IN IF title = <<>> \/ command = <<>>
          THEN UNCHANGED <<pendingRequests, nextId>>
          ELSE /\ nextId <= MaxRequests
               /\ pendingRequests' =
                    <<ApprovalRequest(nextId, title, command, "manual")>> \o pendingRequests
               /\ nextId' = nextId + 1
  /\ lastEvent' = Event("other", 0, "none")
  /\ UNCHANGED <<busy, appMessages, auditLog, turns>>
  /\ UNCHANGED <<dispatcherVars, automationVars>>

\* the audit log after the entry of a decision
auditLogWith(entry, current) == Slice0(<<entry>> \o current, AuditCap)

\* the queue after a decision
pendingAllButLast(queue, requestId) ==
  IF Len(queue) = 1 THEN queue
  ELSE SelectSeq(queue, LAMBDA r : r.id # requestId)

pendingWithout(queue, requestId) == SelectSeq(queue, LAMBDA r : r.id # requestId)

\* The updater handed to setPendingRequests is taken to run once for each
\* call of decideRequest.  The id of the entry is another randomUUID(),
\* written here from the id of the request.
decideRequest ==
  /\ \E requestId \in 1..MaxRequests, decision \in {"approved", "denied"} :
       LET at == {i \in DOMAIN pendingRequests : pendingRequests[i].id = requestId} IN
       /\ lastEvent' = Event("decideRequest", requestId, decision)
       /\ IF at = {}
          THEN UNCHANGED <<pendingRequests, auditLog, appMessages>>
          ELSE LET found == pendingRequests[First(at)]
                   entry == AuditEntry(<<"entry", found.id>>, found, decision)
               IN /\ auditLog' = auditLogWith(entry, auditLog)
                  /\ appMessages' =
                       appMessages \o
                         <<newMessage("system",
                                      <<DecisionUpper(decision), ": ">> \o found.title
                                        \o <<"\nCommand: ">> \o found.command
                                        \o <<"\nSource: ", found.source>>)>>
                  /\ pendingRequests' = pendingWithout(pendingRequests, requestId)
  /\ UNCHANGED <<busy, turns, nextId>>
  /\ UNCHANGED <<dispatcherVars, automationVars>>

clearPendingRequests ==
  /\ pendingRequests' = <<>>
  /\ lastEvent' = Event("other", 0, "none")
  /\ UNCHANGED <<busy, appMessages, auditLog, turns, nextId>>
  /\ UNCHANGED <<dispatcherVars, automationVars>>

clearAuditLog ==
  /\ auditLog' = <<>>
  /\ lastEvent' = Event("other", 0, "none")
  /\ UNCHANGED <<busy, appMessages, pendingRequests, turns, nextId>>
  /\ UNCHANGED <<dispatcherVars, automationVars>>

clearAllReviewData ==
  /\ pendingRequests' = <<>>
  /\ auditLog' = <<>>
  /\ lastEvent' = Event("other", 0, "none")
  /\ UNCHANGED <<busy, appMessages, turns, nextId>>
  /\ UNCHANGED <<dispatcherVars, automationVars>>

AppNext ==
  \/ submitPrompt
  \/ submitPromptAutomated
  \/ submitPromptGrounded
  \/ submitPromptCompleted
  \/ addManualRequest
  \/ decideRequest
  \/ clearPendingRequests
  \/ clearAuditLog
  \/ clearAllReviewData

\* the console at mount, with the audit log that storage holds
AppInit ==
  /\ envKey = <<>>
  /\ DispatcherIdle
  /\ prev = NoCall
  /\ AutomationIdle
  /\ AppIdle
  /\ auditLog \in StoredLogs

SpecApp == AppInit /\ [][AppNext]_vars

(***************************************************************************)
(* Prompt turns one after another, with the calls of submitPrompt that     *)
(* come while a turn is in flight and the decisions on the requests the    *)
(* prompts queue.  Each prompt but the blank one is typed once.            *)
(* requestChatCompletion settles as the dispatcher of llm.ts settles for   *)
(* the messages of the turn, for connector settings with the Ollama preset *)
(* or without an endpoint, and an endpoint that is out of reach, answers   *)
(* 500, answers without a choice, answers with a body that is no JSON or   *)
(* answers with a reply.  lastEvent keeps what a call of submitPrompt      *)
(* found in the composer and what requestChatCompletion settled with.      *)
(***************************************************************************)
TurnSettings ==
  { [endpoint |-> e, model |-> <<"tinyllama">>, apiKey |-> <<>>, systemPrompt |-> <<>>] :
      e \in { <<"http://", "localhost:11434">> \o OllamaPath, <<WS>> } }

TurnThrownValues == { Err("TypeError", <<"Failed to fetch">>) }

TurnResponses ==
  { r \in Responses :
      \/ r.status = 500 /\ r.text = <<"q", "u", "o", "t", "a">>
      \/ r.status = 200 /\ r.json = Json(Some(<<>>), Some(<<>>))
      \/ r.status = 200 /\ ~r.json.valid
      \/ r.status = 299 }

turnSubmit ==
  \E p \in TurnPrompts :
    /\ submitPromptCall(p)
    /\ lastEvent' = [name |-> "submitPrompt", prompt |-> p]

turnCompleted ==
  \E k \in DOMAIN turns :
    /\ turns[k].pc = "requestChatCompletion"
    /\ \E llmSettings \in TurnSettings :
         \E settled \in Settlements(turns[k].modelMessages, llmSettings,
                                    TurnThrownValues, TurnResponses) :
           /\ submitPromptSettled(k, settled)
           /\ lastEvent' = [name |-> "settled", settled |-> settled]

TurnsNext ==
  \/ turnSubmit
  \/ submitPromptAutomated
  \/ submitPromptGrounded
  \/ turnCompleted
  \/ decideRequest

TurnsInit == AppInit /\ auditLog = <<>>

SpecTurns == TurnsInit /\ [][TurnsNext]_vars

\* a timer of runAutomation fires and a fetch settles in the end, and the
\* event loop then runs the code behind the await
SpecTurnsFair ==
  /\ SpecTurns
  /\ WF_vars(submitPromptAutomated)
  /\ WF_vars(submitPromptGrounded)
  /\ WF_vars(turnCompleted)

(***************************************************************************)
(* Reading an outcome: the error kinds of the dispatcher, told apart by    *)
(* the fixed text of the message llm.ts builds.  An error that llm.ts did  *)
(* not construct (a TypeError of new URL, a SyntaxError of json()) is Raw. *)
(***************************************************************************)
ConfigMessages ==
  { <<"Connector endpoint is empty. Set a valid endpoint in Connector settings.">>,
    <<"Connector endpoint is empty.">>,
    <<"Gemini preset expects a Google API key (usually starts with AIza).">>,
    <<"OpenAI-compatible preset cannot use a Google Gemini key. Switch preset to Gemini API or provide a compatible provider key.">> }

EmptyMessages ==
  { <<"Gemini response did not include assistant content.">>,
    <<"LLM response did not include assistant content.">> }

ErrorKind(e) ==
  IF e.name # "Error" THEN "Raw"
  ELSE IF e.message \in ConfigMessages THEN "ConfigError"
  ELSE IF e.message \in EmptyMessages THEN "EmptyResponse"
  ELSE IF Len(e.message) < 2 THEN "Raw"
  ELSE CASE e.message[2] = " request could not reach the endpoint (" -> "NetworkError"
         [] e.message[2] = " request failed in browser (Failed to fetch). This is commonly CORS/network policy. Use Gemini preset, Ollama local preset, or route requests through your own backend relay." -> "NetworkError"
         [] e.message[2] = " quota/rate limit reached (" -> "RateLimited"
         [] e.message[2] = " authentication/permission failed (" -> "AuthError"
         [] e.message[2] = " request failed (" -> "ProviderError"
         [] OTHER -> "Raw"

\* the kind an invocation ended in: "pending", "ok", or the kind of its error
OutcomeKind ==
  IF ~IsSome(outcome) THEN "pending"
  ELSE IF Get(outcome).ok THEN "ok"
  ELSE ErrorKind(Get(outcome).error)

Running == op # "none"

(***************************************************************************)
(* C1.  An endpoint that is empty after trimming makes both operations     *)
(* fail with ConfigError without any network call, whatever the model,     *)
(* the API key and the system prompt.                                      *)
(***************************************************************************)
C1_EmptyEndpointConfigError ==
  (Running /\ Trim(settings.endpoint) = <<>>) =>
    /\ pc = "done"
    /\ OutcomeKind = "ConfigError"
    /\ netCalls = 0
    /\ request = Absent
    /\ net = Absent

C1_Witness ==
  /\ op = "complete"
  /\ settings.endpoint = <<WS>>
  /\ Trim(settings.apiKey) # <<>>
  /\ Trim(settings.model) # <<>>
  /\ settings.systemPrompt # <<>>
  /\ OutcomeKind = "ConfigError"
  /\ netCalls = 0


(***************************************************************************)
(* The claims' own reading of a settings record, stated without the        *)
(* operators of llm.ts.                                                    *)
(***************************************************************************)
\* the endpoint and the key the invocation in progress works with
EndpointEntered == Trim(settings.endpoint)

ResolvedKey ==
  IF Trim(settings.apiKey) # <<>> THEN Trim(settings.apiKey) ELSE Trim(envKey)

GeminiClassified == \E i \in 1..Len(EndpointEntered) : EndpointEntered[i] = GeminiHost

\* the endpoint holds localhost:11434 or 127.0.0.1:11434 as written
LoopbackAsWritten ==
  \E i \in 1..Len(EndpointEntered) :
    EndpointEntered[i] \in {"localhost:11434", "127.0.0.1:11434"}

\* the same, letter case ignored
LoopbackAnyCase ==
  \E i \in 1..Len(EndpointEntered) :
    EndpointEntered[i] \in {"localhost:11434", "LOCALHOST:11434", "127.0.0.1:11434"}

KeyShapeMismatch ==
  /\ ResolvedKey # <<>>
  /\ \/ GeminiClassified /\ ResolvedKey[1] # "AIza"
     \/ ~GeminiClassified /\ ResolvedKey[1] = "AIza"

\* the Gemini path hands new URL an endpoint without a scheme
GeminiURLRejected ==
  /\ GeminiClassified
  /\ ResolvedKey # <<>>
  /\ EndpointEntered[1] \notin Schemes

(***************************************************************************)
(* C2 as stated.  For a non-empty endpoint the invocation fails with       *)
(* ConfigError exactly when the endpoint does not contain localhost:11434  *)
(* or 127.0.0.1:11434, the resolved key is non-empty and its AIza prefix   *)
(* does not fit the endpoint's classification; in every other case the     *)
(* call proceeds to the network.                                           *)
(***************************************************************************)
C2_AsStated ==
  (Running /\ EndpointEntered # <<>>) =>
    /\ OutcomeKind = "ConfigError" <=> (~LoopbackAsWritten /\ KeyShapeMismatch)
    /\ ~(~LoopbackAsWritten /\ KeyShapeMismatch) => netCalls = 1

(***************************************************************************)
(* C2 as amended.  The loopback test ignores letter case: for a non-empty  *)
(* endpoint the invocation fails with ConfigError exactly when the         *)
(* endpoint, lower-cased, contains neither localhost:11434 nor             *)
(* 127.0.0.1:11434, the resolved key is non-empty and its AIza prefix does *)
(* not fit the classification.  In every other case validation passes and  *)
(* the one network call is issued, except where the Gemini path rejects    *)
(* the endpoint as a URL (C3) and the call ends in that TypeError.         *)
(***************************************************************************)
C2_KeyShapeValidation ==
  (Running /\ EndpointEntered # <<>>) =>
    /\ OutcomeKind = "ConfigError" <=> (~LoopbackAnyCase /\ KeyShapeMismatch)
    /\ ~(~LoopbackAnyCase /\ KeyShapeMismatch) =>
         IF GeminiURLRejected THEN OutcomeKind = "Raw" /\ netCalls = 0
         ELSE netCalls = 1

C2_Witness ==
  /\ pc = "done"
  /\ op = "complete"
  /\ ~LoopbackAsWritten
  /\ LoopbackAnyCase
  /\ KeyShapeMismatch
  /\ netCalls = 1
  /\ OutcomeKind = "ok"


(***************************************************************************)
(* C3 as stated.  An invocation makes at most one network call: exactly    *)
(* one when validation passes, none when it ends in ConfigError.           *)
(***************************************************************************)
ValidationPasses ==
  /\ EndpointEntered # <<>>
  /\ ~(~LoopbackAnyCase /\ KeyShapeMismatch)

C3_AsStated ==
  Running =>
    /\ netCalls <= 1
    /\ OutcomeKind = "ConfigError" => netCalls = 0
    /\ ValidationPasses => netCalls = 1

(***************************************************************************)
(* C4.  A response with a status outside 200..299 fails the call with      *)
(* RateLimited for 429, AuthError for 401 and 403 and ProviderError for    *)
(* any other status, on both providers, and the message carries the first  *)
(* 220 characters of the response body and no more of it.                  *)
(***************************************************************************)
Min(a, b) == IF a < b THEN a ELSE b

HttpErrorAnswered ==
  /\ pc = "done"
  /\ IsSome(net)
  /\ Get(net).type = "response"
  /\ ~(Get(net).response.status \in 200..299)

C4_HttpErrorMapping ==
  HttpErrorAnswered =>
    LET status == Get(net).response.status
        text == Get(net).response.text
        message == Get(outcome).error.message
        n == Min(Len(text), 220)
    IN /\ ~Get(outcome).ok
       /\ OutcomeKind = (IF status = 429 THEN "RateLimited"
                         ELSE IF status \in {401, 403} THEN "AuthError"
                         ELSE "ProviderError")
       /\ message[1] = (IF GeminiClassified THEN "Gemini" ELSE "OpenAI-compatible")
       /\ message[3] = ToString(status)
       /\ SubSeq(message, 5, 4 + n) = SubSeq(text, 1, n)
       /\ Len(message) <= 4 + n + 1

C4_Witness ==
  /\ HttpErrorAnswered
  /\ Get(net).response.status = 401
  /\ Len(Get(net).response.text) > 220
  /\ GeminiClassified
  /\ OutcomeKind = "AuthError"

(***************************************************************************)
(* C5.  When fetch itself throws, the caller receives a NetworkError built *)
(* by safeFetch for the provider in use, never the value fetch threw.      *)
(***************************************************************************)
FetchThrew == pc = "done" /\ IsSome(net) /\ Get(net).type = "throw"

C5_TransportFailureWrapped ==
  FetchThrew =>
    /\ ~Get(outcome).ok
    /\ OutcomeKind = "NetworkError"
    /\ Get(outcome).error # Get(net).thrown
    /\ Get(outcome).error.name = "Error"
    /\ Get(outcome).error.message[1] = (IF GeminiClassified THEN "Gemini" ELSE "OpenAI-compatible")

C5_Witness ==
  /\ FetchThrew
  /\ op = "complete"
  /\ ~GeminiClassified
  /\ Get(net).thrown = Err("TypeError", <<"Failed to fetch">>)
  /\ OutcomeKind = "NetworkError"

(***************************************************************************)
(* C6.  complete never returns an empty string: a 2xx response whose       *)
(* assistant text is missing or empty after trimming fails with            *)
(* EmptyResponse on both paths.                                            *)
(***************************************************************************)
RECURSIVE ConcatTexts(_)
ConcatTexts(parts) ==
  IF parts = <<>> THEN <<>>
  ELSE (IF parts[1].text = <<>> THEN <<>> ELSE parts[1].text[1]) \o ConcatTexts(Tail(parts))

\* the assistant text of a parsed body as the provider's format defines it,
\* before trimming; <<>> when a field on the way is missing
AssistantText(json) ==
  IF GeminiClassified
  THEN IF json.candidates = <<>> \/ json.candidates[1] = <<>> THEN <<>>
       ELSE LET first == json.candidates[1][1] IN
            IF first.content = <<>> \/ first.content[1].parts = <<>> THEN <<>>
            ELSE ConcatTexts(first.content[1].parts[1])
  ELSE IF json.choices = <<>> \/ json.choices[1] = <<>> THEN <<>>
       ELSE LET first == json.choices[1][1] IN
            IF first.message = <<>> \/ first.message[1].content = <<>> THEN <<>>
            ELSE first.message[1].content[1]

CompleteAnswered2xx ==
  /\ pc = "done"
  /\ op = "complete"
  /\ IsSome(net)
  /\ Get(net).type = "response"
  /\ Get(net).response.status \in 200..299
  /\ Get(net).response.json.valid

C6_NoEmptyCompletion ==
  /\ (op = "complete" /\ IsSome(outcome) /\ Get(outcome).ok) => Get(outcome).value # <<>>
  /\ CompleteAnswered2xx =>
       IF Trim(AssistantText(Get(net).response.json)) = <<>>
       THEN OutcomeKind = "EmptyResponse"
       ELSE Get(outcome).ok /\ Get(outcome).value = Trim(AssistantText(Get(net).response.json))

C6_Witness ==
  /\ CompleteAnswered2xx
  /\ GeminiClassified
  /\ AssistantText(Get(net).response.json) # <<>>
  /\ Trim(AssistantText(Get(net).response.json)) = <<>>
  /\ OutcomeKind = "EmptyResponse"


(***************************************************************************)
(* Reading a URL: its model part (the segment after the first /models/,    *)
(* with the :generateContent that may follow) and the values of its key    *)
(* parameters.                                                             *)
(***************************************************************************)
HasModelSegment(s) == \E i \in 1..Len(s) : ModelMatchAt(s, i)

ModelStart(s) ==
  CHOOSE i \in 1..Len(s) : ModelMatchAt(s, i) /\ \A h \in 1..(i - 1) : ~ModelMatchAt(s, h)

ModelSegmentOf(s) == SubSeq(s, ModelStart(s) + 1, SegRunEnd(s, ModelStart(s) + 1))

\* the :generateContent (in any case) right after the model segment, <<>>
\* when something else or nothing follows
AfterModelSegment(s) ==
  LET e == SegRunEnd(s, ModelStart(s) + 1) IN
  IF e + 1 <= Len(s) /\ LowerToken(s[e + 1]) = ":generatecontent" THEN <<s[e + 1]>> ELSE <<>>

ModelPart(s) ==
  IF HasModelSegment(s) THEN <<ModelSegmentOf(s), AfterModelSegment(s)>> ELSE <<>>

\* the values of every key parameter of the query, in order
KeyValues(s) ==
  LET ps == SelectSeq(ParseQuery(SubSeq(s, QueryStart(s) + 1, Len(s))),
                      LAMBDA p : p.name = "key=")
  IN [i \in 1..Len(ps) |-> ps[i].value]

GeminiRequested == pc = "fetching" /\ GeminiClassified

(***************************************************************************)
(* C7 as stated.  For a Gemini-classified endpoint the URL requested has   *)
(* the model segment settings.model followed by :generateContent and the   *)
(* query parameter key exactly once, with the resolved API key, also when  *)
(* the endpoint already had a key parameter.                               *)
(***************************************************************************)
C7_AsStated ==
  GeminiRequested =>
    LET url == Get(request).url IN
    /\ HasModelSegment(url)
    /\ ModelSegmentOf(url) = settings.model
    /\ AfterModelSegment(url) = <<":generateContent">>
    /\ KeyValues(url) = <<ResolvedKey>>

(***************************************************************************)
(* C7 as amended.  For a Gemini-classified endpoint the URL requested has, *)
(* when settings.model is non-empty after trimming and the endpoint has a  *)
(* /models/<segment> part, the model segment settings.model trimmed,       *)
(* followed by :generateContent; otherwise its model part is the           *)
(* endpoint's.  When the resolved key is non-empty and the endpoint has no *)
(* key parameter, the URL carries key exactly once, with the resolved key; *)
(* otherwise its key parameters are the endpoint's own, unchanged.         *)
(***************************************************************************)
C7_GeminiURL ==
  GeminiRequested =>
    LET url == Get(request).url IN
    /\ Get(request).provider = "Gemini"
    /\ IF Trim(settings.model) # <<>> /\ HasModelSegment(EndpointEntered)
       THEN /\ HasModelSegment(url)
            /\ ModelSegmentOf(url) = Trim(settings.model)
            /\ AfterModelSegment(url) = <<":generateContent">>
       ELSE ModelPart(url) = ModelPart(EndpointEntered)
    /\ IF ResolvedKey # <<>> /\ KeyValues(EndpointEntered) = <<>>
       THEN KeyValues(url) = <<ResolvedKey>>
       ELSE KeyValues(url) = KeyValues(EndpointEntered)

C7_Witness ==
  /\ GeminiRequested
  /\ ResolvedKey # <<>>
  /\ KeyValues(EndpointEntered) # <<>>
  /\ KeyValues(Get(request).url) = <<<<"AIza", "OLD">>>>
  /\ ResolvedKey # <<"AIza", "OLD">>
  /\ ModelSegmentOf(Get(request).url) = <<"gemini-pro">>


(***************************************************************************)
(* C8.  On the Gemini path the contents of the request are the history     *)
(* without its system messages, in order, assistant sent as model and user *)
(* as user; no entry has the role system, and the system prompt is sent in *)
(* system_instruction only.                                                *)
(***************************************************************************)
RECURSIVE WithoutSystem(_)
WithoutSystem(h) ==
  IF h = <<>> THEN <<>>
  ELSE (IF Head(h).role = "system" THEN <<>>
        ELSE <<[role |-> IF Head(h).role = "assistant" THEN "model" ELSE "user",
                parts |-> <<[text |-> Head(h).content]>>]>>)
         \o WithoutSystem(Tail(h))

GeminiCompletionRequested == pc = "fetching" /\ op = "complete" /\ GeminiClassified

C8_GeminiContentsNoSystem ==
  GeminiCompletionRequested =>
    LET body == Get(request).body IN
    /\ body.contents = WithoutSystem(messages)
    /\ \A i \in 1..Len(body.contents) : body.contents[i].role \in {"user", "model"}
    /\ DOMAIN body = {"system_instruction", "contents"}
    /\ body.system_instruction = [parts |-> <<[text |-> Trim(settings.systemPrompt)]>>]

C8_Witness ==
  /\ GeminiCompletionRequested
  /\ Len(messages) = 2
  /\ messages[1].role = "system"
  /\ messages[2].role = "assistant"
  /\ Len(Get(request).body.contents) = 1
  /\ Get(request).body.contents[1].role = "model"
  /\ settings.systemPrompt # <<>>

(***************************************************************************)
(* C9.  On the OpenAI-compatible path the messages of the request are one  *)
(* system message holding the trimmed system prompt, then every message of *)
(* the history in order with its role and content as they are, system      *)
(* messages included.                                                      *)
(***************************************************************************)
OpenAICompletionRequested == pc = "fetching" /\ op = "complete" /\ ~GeminiClassified

C9_OpenAIMessages ==
  OpenAICompletionRequested =>
    LET sent == Get(request).body.messages IN
    /\ Len(sent) = Len(messages) + 1
    /\ sent[1] = [role |-> "system", content |-> Trim(settings.systemPrompt)]
    /\ \A i \in 1..Len(messages) :
         sent[i + 1] = [role |-> messages[i].role, content |-> messages[i].content]

C9_Witness ==
  /\ OpenAICompletionRequested
  /\ Len(messages) = 2
  /\ messages[1].role = "assistant"
  /\ messages[2].role = "system"
  /\ settings.systemPrompt # Trim(settings.systemPrompt)
  /\ Len(Get(request).body.messages) = 3

(***************************************************************************)
(* C10.  testConnector validates and branches as complete does: on the     *)
(* same settings and the same answer of the network the two fail with the  *)
(* same kind among ConfigError, NetworkError, RateLimited, AuthError and   *)
(* ProviderError, or neither fails with one; they request the same URL     *)
(* with the same headers; and on a 2xx response testConnector returns its  *)
(* fixed confirmation, whatever the body.                                  *)
(***************************************************************************)
SharedKinds == {"ConfigError", "NetworkError", "RateLimited", "AuthError", "ProviderError"}

Confirmations == { <<"Gemini connector reachable">>, <<"Connector reachable">> }

KindOf(o) == IF o.ok THEN "ok" ELSE ErrorKind(o.error)

\* a and b are the same shared kind, or neither is a shared kind
SameSharedKind(a, b) == (a \in SharedKinds \/ b \in SharedKinds) => a = b

\* the two requests go to the same URL with the same method and headers
SameTarget(a, b) ==
  /\ IsSome(a) <=> IsSome(b)
  /\ IsSome(a) =>
       /\ Get(a).url = Get(b).url
       /\ Get(a).method = Get(b).method
       /\ Get(a).headers = Get(b).headers
       /\ Get(a).provider = Get(b).provider

\* how each operation settles after what fetch did for its request
SettledComplete(req, n) ==
  IF n.type = "throw" THEN Rejected(safeFetchError(n.thrown, Get(req).provider))
  ELSE requestChatCompletionReceive(Get(req).provider, n.response)

SettledTest(req, n) ==
  IF n.type = "throw" THEN Rejected(safeFetchError(n.thrown, Get(req).provider))
  ELSE testConnectorReceive(Get(req).provider, n.response)

\* the other operation, on the settings of the invocation in progress, ends
\* before the fetch with the same kind or issues a request to the same target
SendAgrees(otherSent) ==
  /\ SameTarget(request, otherSent.request)
  /\ pc = "done" =>
       /\ IsSome(otherSent.outcome)
       /\ SameSharedKind(OutcomeKind, KindOf(Get(otherSent.outcome)))

Answered2xx == Get(net).type = "response" /\ Get(net).response.status \in 200..299

\* Before fetch answers, the operation in progress is compared with the
\* other one's Send on the same settings (for testConnector, with complete
\* on every history).  Once fetch has answered, the request is the one both
\* issue, and the two are compared on what they make of the answer.
C10_TestConnectorMirrorsComplete ==
  /\ (op = "complete" /\ ~IsSome(net)) => SendAgrees(testConnectorSend(settings))
  /\ (op = "test" /\ ~IsSome(net)) =>
       \A h \in Histories : SendAgrees(requestChatCompletionSend(h, settings))
  /\ (op = "complete" /\ IsSome(net)) =>
       LET t == SettledTest(request, Get(net)) IN
       /\ SameSharedKind(OutcomeKind, KindOf(t))
       /\ Answered2xx => t.ok /\ t.value \in Confirmations
  /\ (op = "test" /\ IsSome(net)) =>
       /\ SameSharedKind(OutcomeKind, KindOf(SettledComplete(request, Get(net))))
       /\ Answered2xx => Get(outcome).ok /\ Get(outcome).value \in Confirmations

C10_Witness ==
  /\ op = "test"
  /\ pc = "done"
  /\ GeminiClassified
  /\ IsSome(net)
  /\ Get(net).type = "response"
  /\ Get(net).response.status = 200
  /\ Trim(AssistantText(Get(net).response.json)) = <<"Hello", "world">>
  /\ Get(outcome).ok
  /\ Get(outcome).value = <<"Gemini connector reachable">>

(***************************************************************************)
(* C11.  The dispatcher stores no provider identity.  In any sequence of   *)
(* invocations the protocol of a request is decided by the endpoint of     *)
(* that invocation alone; an invocation with the arguments of the one      *)
(* before it builds the same request and, on the same answer of the        *)
(* network, ends in the same outcome; and an invocation that differs from  *)
(* the one before it in the endpoint only, with the other classification,  *)
(* uses the other protocol.                                                *)
(***************************************************************************)
ProtocolOf(endpoint) ==
  IF \E i \in 1..Len(endpoint) : endpoint[i] = GeminiHost THEN "Gemini" ELSE "OpenAI-compatible"

SameArguments ==
  /\ prev.op = op
  /\ prev.settings = settings
  /\ prev.messages = messages

OnlyEndpointChanged ==
  /\ prev.op = op
  /\ prev.messages = messages
  /\ prev.settings.endpoint # settings.endpoint
  /\ [prev.settings EXCEPT !.endpoint = settings.endpoint] = settings

C11_ProviderNotStored ==
  (Running /\ prev.op # "none") =>
    /\ IsSome(request) => Get(request).provider = ProtocolOf(settings.endpoint)
    /\ SameArguments =>
         /\ request = prev.request
         /\ (pc = "done" /\ net = prev.net) => outcome = prev.outcome
    /\ (OnlyEndpointChanged /\ IsSome(request) /\ IsSome(prev.request)
          /\ ProtocolOf(settings.endpoint) # ProtocolOf(prev.settings.endpoint)) =>
         Get(request).provider # Get(prev.request).provider

C11_Witness ==
  /\ pc = "done"
  /\ op = "complete"
  /\ OnlyEndpointChanged
  /\ IsSome(prev.request)
  /\ Get(prev.request).provider = "Gemini"
  /\ Get(prev.outcome).ok
  /\ IsSome(request)
  /\ Get(request).provider = "OpenAI-compatible"
  /\ OutcomeKind = "ok"

(***************************************************************************)
(* The claims' own reading of a run of the automation engine.              *)
(***************************************************************************)
\* the enabled tasks of the run, in the order of the list
RECURSIVE EnabledOf(_)
EnabledOf(ts) ==
  IF ts = <<>> THEN <<>>
  ELSE (IF Head(ts).enabled THEN <<Head(ts)>> ELSE <<>>) \o EnabledOf(Tail(ts))

RunReturned == runPc = "returned"

\* the block opens with the label of the task
Labelled(block, task) == Len(block) >= 3 /\ SubSeq(block, 1, 3) = <<"[", task.name, "]">>

\* the block is the echo of the text: its first 200 characters, and the
\* ellipsis if there are more
EchoOf(block, text) ==
  IF Len(text) > 200
  THEN block = <<"\nInput: \"">> \o SubSeq(text, 1, 200) \o <<"...", "\"">>
  ELSE block = <<"\nInput: \"">> \o text \o <<"\"">>

(***************************************************************************)
(* C12.  For every prompt, run on a task list that is empty or has every   *)
(* task disabled returns the one block "No automation tasks enabled." and  *)
(* nothing else: no block of a task and no echo of the prompt.             *)
(***************************************************************************)
C12_NoTasksEnabled ==
  (runPc # "idle" /\ EnabledOf(tasks) = <<>>) =>
    /\ RunReturned
    /\ outputs = << <<"No automation tasks enabled.">> >>

C12_Witness ==
  /\ RunReturned
  /\ Len(tasks) = 3
  /\ \A n \in 1..3 : ~tasks[n].enabled
  /\ Trim(userPrompt) # <<>>
  /\ outputs = << <<"No automation tasks enabled.">> >>

(***************************************************************************)
(* C13.  With at least one task enabled, run produces one block for each   *)
(* enabled task and none for a disabled one, in the order of the list: at  *)
(* every point of the run the blocks so far are those of the first enabled *)
(* tasks, the i-th opening with the label [name] of the i-th enabled task, *)
(* whatever its id, and at the return every enabled task has its block.    *)
(***************************************************************************)
C13_OneBlockPerEnabledTask ==
  (runPc # "idle" /\ EnabledOf(tasks) # <<>>) =>
    LET enabled == EnabledOf(tasks) IN
    /\ taskIndex <= Len(enabled)
    /\ Len(outputs) >= taskIndex
    /\ \A i \in 1..taskIndex : Labelled(outputs[i], enabled[i])
    /\ runPc = "waiting" => Len(outputs) = taskIndex /\ taskIndex < Len(enabled)
    /\ RunReturned =>
         /\ taskIndex = Len(enabled)
         /\ Len(outputs) <= Len(enabled) + 1
         /\ \A i \in (Len(enabled) + 1)..Len(outputs) : outputs[i][1] = "\nInput: \""

C13_Witness ==
  /\ RunReturned
  /\ Len(tasks) = 3
  /\ ~tasks[1].enabled
  /\ tasks[2].enabled
  /\ tasks[3].enabled
  /\ tasks[2].id = tasks[3].id
  /\ tasks[2].name # tasks[3].name
  /\ Len(outputs) = 3
  /\ outputs[1][2] = tasks[2].name
  /\ outputs[2][2] = tasks[3].name

(***************************************************************************)
(* C14 as stated.  With at least one task enabled, run returns the blocks  *)
(* of the enabled tasks and then, if and only if the prompt is non-empty,  *)
(* one block echoing the prompt trimmed and cut to 200 characters, with an *)
(* ellipsis only if it is longer.                                          *)
(***************************************************************************)
C14_AsStated ==
  (RunReturned /\ EnabledOf(tasks) # <<>>) =>
    LET n == Len(EnabledOf(tasks)) IN
    IF userPrompt # <<>>
    THEN Len(outputs) = n + 1 /\ EchoOf(outputs[n + 1], Trim(userPrompt))
    ELSE Len(outputs) = n

(***************************************************************************)
(* C14 as amended.  The echo is appended if and only if the prompt is      *)
(* non-empty after trimming: the result has one block more than there are  *)
(* enabled tasks for such a prompt, and exactly as many as there are       *)
(* enabled tasks for a prompt that is empty or white space only.           *)
(***************************************************************************)
C14_EchoOfPrompt ==
  (RunReturned /\ EnabledOf(tasks) # <<>>) =>
    LET n == Len(EnabledOf(tasks)) IN
    IF Trim(userPrompt) # <<>>
    THEN Len(outputs) = n + 1 /\ EchoOf(outputs[n + 1], Trim(userPrompt))
    ELSE Len(outputs) = n

C14_Witness ==
  /\ RunReturned
  /\ userPrompt # <<>>
  /\ Trim(userPrompt) = <<>>
  /\ Len(EnabledOf(tasks)) = 2
  /\ Len(outputs) = 2

(***************************************************************************)
(* C15.  The README (Teaching Mode: Elevation Approval) says that          *)
(* admin-related prompts are routed to pending approval and not            *)
(* auto-executed.  Read on the console: a prompt turn is in flight from    *)
(* the step of submitPrompt that accepts the prompt; it is processed when  *)
(* runAutomation has been called for it, has returned for it, or           *)
(* requestChatCompletion has been called for it.                           *)
(***************************************************************************)
ReviewKeywords ==
  { <<"a", "d", "m", "i", "n", " ", "r", "i", "g", "h", "t", "s">>,
    <<"a", "d", "m", "i", "n", "i", "s", "t", "r", "a", "t", "o", "r", " ",
      "r", "i", "g", "h", "t", "s">>,
    <<"p", "r", "i", "v", "i", "l", "e", "g", "e", " ", "e", "s", "c", "a",
      "l", "a", "t", "i", "o", "n">>,
    <<"r", "e", "v", "e", "r", "s", "e", " ", "e", "n", "g", "i", "n", "e", "e", "r">> }

HasReviewKeyword(text) ==
  \E w \in ReviewKeywords : IncludesText(ToLowerCase(text), w)

\* the places of the queue that hold a request made from the prompt text
PromptRequests(text) ==
  {i \in DOMAIN pendingRequests :
     pendingRequests[i].source = "prompt" /\ pendingRequests[i].command = text}

\* the step starts a prompt turn for a prompt with a review keyword
AcceptsReviewPrompt ==
  /\ Len(turns') = Len(turns) + 1
  /\ HasReviewKeyword(turns'[Len(turns')].trimmed)

QueuedAtHead ==
  /\ Len(pendingRequests') = Len(pendingRequests) + 1
  /\ Tail(pendingRequests') = pendingRequests
  /\ Head(pendingRequests').source = "prompt"
  /\ Head(pendingRequests').command = turns'[Len(turns')].trimmed

\* the turn in flight is on its way for a prompt whose request is pending
HeldForReview(t) == HasReviewKeyword(t.trimmed) /\ PromptRequests(t.trimmed) # {}

Processed(t) ==
  t.pc \in {"runAutomation", "buildGroundedPromptFromUrl", "requestChatCompletion"}

\* C15 (as stated): when submitPrompt accepts a prompt that holds a review
\* keyword, exactly one request with source prompt is added at the head of
\* the pending queue, and while that request is pending the prompt is not
\* processed: no automation run and no model call.
C15_AsStated ==
  /\ [][AcceptsReviewPrompt => QueuedAtHead]_vars
  /\ [](\A k \in DOMAIN turns : HeldForReview(turns[k]) => ~Processed(turns[k]))

(***************************************************************************)
(* C16.  A step is a call of decideRequest when it leaves lastEvent naming *)
(* decideRequest; the id and the decision it was given are read there.     *)
(***************************************************************************)
Decides == lastEvent'.name = "decideRequest"

PendingAt(requestId) ==
  {i \in DOMAIN pendingRequests : pendingRequests[i].id = requestId}

Audited(requestId) ==
  \E j \in DOMAIN auditLog : auditLog[j].requestId = requestId

\* the queue without its i-th request
WithoutPlace(queue, i) == SubSeq(queue, 1, i - 1) \o SubSeq(queue, i + 1, Len(queue))

DecisionAudited ==
  LET at == PendingAt(lastEvent'.requestId) IN
  IF at = {}
  THEN pendingRequests' = pendingRequests /\ auditLog' = auditLog
  ELSE \E i \in at :
         /\ at = {i}
         /\ pendingRequests' = WithoutPlace(pendingRequests, i)
         /\ auditLog' # <<>>
         /\ Head(auditLog').requestId = pendingRequests[i].id
         /\ Head(auditLog').title = pendingRequests[i].title
         /\ Head(auditLog').command = pendingRequests[i].command
         /\ Head(auditLog').source = pendingRequests[i].source
         /\ Head(auditLog').decision = lastEvent'.decision
         /\ Tail(auditLog') = Slice0(auditLog, AuditCap - 1)

NeverPendingAndAudited ==
  \A i \in DOMAIN pendingRequests : ~Audited(pendingRequests[i].id)

\* C16: decideRequest on an id that is in the pending queue removes that
\* request and no other from the queue and puts one entry at the head of the
\* audit log, which carries the id, title, command and source of the request
\* and the decision; the entries behind it are those the log held, the
\* oldest dropped when the log was full (120).  decideRequest on an id that
\* is not in the queue leaves the queue and the log as they were.  No
\* request is at once in the queue and in the log.
C16_DecisionsAudited ==
  /\ [][Decides => DecisionAudited]_vars
  /\ []NeverPendingAndAudited

\* a decision has just been logged at the head of a log that is full now,
\* and another request is still pending
C16_Witness ==
  /\ lastEvent.name = "decideRequest"
  /\ auditLog # <<>>
  /\ Head(auditLog).requestId = lastEvent.requestId
  /\ Head(auditLog).decision = lastEvent.decision
  /\ Head(auditLog).source = "prompt"
  /\ Len(auditLog) = AuditCap
  /\ pendingRequests # <<>>
  /\ ~Audited(Head(pendingRequests).id)

(***************************************************************************)
(* C17.  The headers of the request handed to fetch, by either operation.  *)
(***************************************************************************)
Requested == pc = "fetching"

AuthorizationSent == Get(request).headers.Authorization

\* C17: a request to an endpoint that is not Gemini-classified carries an
\* Authorization header exactly when the resolved key (the key of the
\* settings trimmed, or else the process-wide key) is not empty, and its
\* value is then Bearer followed by that key; a request to a
\* Gemini-classified endpoint carries no Authorization header.
C17_AuthorizationHeader ==
  Requested =>
    IF GeminiClassified
    THEN ~IsSome(AuthorizationSent)
    ELSE /\ IsSome(AuthorizationSent) <=> ResolvedKey # <<>>
         /\ ResolvedKey # <<>> => Get(AuthorizationSent) = <<"Bearer ">> \o ResolvedKey

\* a request on the OpenAI-compatible path whose header carries the
\* process-wide key, the settings holding none
C17_Witness ==
  /\ Requested
  /\ ~GeminiClassified
  /\ Trim(settings.apiKey) = <<>>
  /\ envKey # <<>>
  /\ IsSome(AuthorizationSent)
  /\ Get(AuthorizationSent) = <<"Bearer ">> \o Trim(envKey)

(***************************************************************************)
(* C18.  The text a completion returns on the Gemini path.  A text that is *)
(* empty after trimming is not returned: that is the EmptyResponse of C6.  *)
(***************************************************************************)
GeminiAnswered2xx == CompleteAnswered2xx /\ GeminiClassified

\* the texts of the parts of candidates[0], a missing text empty, one after
\* the other with nothing between them
FirstCandidateText == AssistantText(Get(net).response.json)

\* C18: on a 2xx response on the Gemini path, what complete returns is the
\* texts of the parts of candidates[0] put together in order with nothing
\* between them, a missing text counting as empty, and trimmed at its two
\* ends only; it is returned whenever it is not empty, and no part of
\* another candidate is in it.
C18_GeminiTextConcatenated ==
  GeminiAnswered2xx =>
    /\ Trim(FirstCandidateText) # <<>> => Get(outcome).ok
    /\ Get(outcome).ok => Get(outcome).value = Trim(FirstCandidateText)

\* two candidates, the first with a part that has no text: the texts are
\* joined, the white space inside is kept, the second candidate is left out
C18_Witness ==
  /\ GeminiAnswered2xx
  /\ Get(net).response.json.candidates # <<>>
  /\ Len(Get(net).response.json.candidates[1]) = 2
  /\ FirstCandidateText = <<WS, "Hello", WS, WS, "world", WS>>
  /\ Get(outcome).ok
  /\ Get(outcome).value = <<"Hello", WS, WS, "world">>

(***************************************************************************)
(* C19.  The report of the safety-check task, read against the denylist as *)
(* the claim gives it.                                                     *)
(***************************************************************************)
DenylistTerms ==
  << <<"a", "d", "m", "i", "n", " ", "r", "i", "g", "h", "t", "s">>,
     <<"p", "r", "i", "v", "i", "l", "e", "g", "e", " ", "e", "s", "c", "a",
       "l", "a", "t", "i", "o", "n">>,
     <<"r", "e", "v", "e", "r", "s", "e", " ", "e", "n", "g", "i", "n", "e", "e", "r">> >>

\* the term occurs in the text, letter case set aside
OccursIgnoringCase(text, term) ==
  \E i \in 1..(Len(text) - Len(term) + 1) :
    \A k \in 1..Len(term) : LowerToken(text[i + k - 1]) = term[k]

\* the terms of the denylist that occur in the text, in the order of the list
RECURSIVE TermsFrom(_, _)
TermsFrom(text, n) ==
  IF n > Len(DenylistTerms) THEN <<>>
  ELSE (IF OccursIgnoringCase(text, DenylistTerms[n]) THEN <<DenylistTerms[n]>> ELSE <<>>)
         \o TermsFrom(text, n + 1)

\* the terms written one after the other with ", " between them
RECURSIVE TermList(_)
TermList(terms) ==
  IF terms = <<>> THEN <<>>
  ELSE IF Len(terms) = 1 THEN terms[1]
  ELSE terms[1] \o <<", ">> \o TermList(Tail(terms))

SafetyReport(text) ==
  IF TermsFrom(text, 1) = <<>> THEN <<"\n", "Safe to execute">>
  ELSE <<"\n", "Needs manual review (matched: ">> \o TermList(TermsFrom(text, 1)) \o <<")">>

\* C19: in a run that has returned, the block of every enabled safety-check
\* task is its label followed by Safe to execute when none of admin rights,
\* privilege escalation and reverse engineer occurs in the prompt in any
\* letter case, and otherwise by Needs manual review with the terms that
\* occur, each once, in the order of the denylist.
C19_SafetyCheckReport ==
  RunReturned =>
    LET enabled == EnabledOf(tasks) IN
    \A i \in 1..Len(enabled) :
      enabled[i].id = "safety-check" =>
        /\ Labelled(outputs[i], enabled[i])
        /\ SubSeq(outputs[i], 4, Len(outputs[i])) = SafetyReport(userPrompt)

\* a prompt that holds reverse engineer in upper case before admin rights:
\* both are listed, admin rights first
C19_Witness ==
  /\ RunReturned
  /\ Len(tasks) = 1
  /\ tasks[1].id = "safety-check"
  /\ tasks[1].enabled
  /\ OccursIgnoringCase(userPrompt, DenylistTerms[1])
  /\ OccursIgnoringCase(userPrompt, DenylistTerms[3])
  /\ ~IncludesText(userPrompt, DenylistTerms[1])
  /\ SubSeq(outputs[1], 4, Len(outputs[1]))
       = <<"\n", "Needs manual review (matched: ">> \o DenylistTerms[1] \o <<", ">>
           \o DenylistTerms[3] \o <<")">>

(***************************************************************************)
(* C20.  The report of the answer-web-questions task, read from the prompt *)
(* without the patterns of automation.ts.  An http(s) URL is http:// or    *)
(* https:// in lower case with a character behind it that is no white      *)
(* space, up to the next white space.  A question ends at a question mark  *)
(* and starts behind the question mark before it, line feeds at its start  *)
(* left out.  An answer line is the word answer or correct in any letter   *)
(* case, then a colon or a hyphen, white space allowed before it, and text *)
(* behind it; the answer is the text from the first character behind the   *)
(* mark that is no white space to the end of its line.                     *)
(***************************************************************************)
Cleaned == Trim(userPrompt)

URLStarts(s) ==
  {i \in 1..Len(s) :
     \E scheme \in { <<"h", "t", "t", "p", ":", "/", "/">>,
                     <<"h", "t", "t", "p", "s", ":", "/", "/">> } :
       /\ StartsAt(s, i, scheme)
       /\ i + Len(scheme) <= Len(s)
       /\ ~IsSpace(s[i + Len(scheme)])}

FirstURL(s) ==
  LET i == First(URLStarts(s))
      spaces == {j \in i..Len(s) : IsSpace(s[j])}
  IN SubSeq(s, i, IF spaces = {} THEN Len(s) ELSE First(spaces) - 1)

QuestionMarks(s) == {j \in 1..Len(s) : s[j] = "?"}

\* the question that ends at the mark j, <<>> if there is none
QuestionEndingAt(s, j) ==
  LET before == {k \in QuestionMarks(s) : k < j}
      from == IF before = {} THEN 1 ELSE Last(before) + 1
      starts == {i \in from..(j - 1) : s[i] # "\n"}
  IN IF starts = {} THEN <<>> ELSE Trim(SubSeq(s, First(starts), j))

RECURSIVE QuestionsFrom(_, _)
QuestionsFrom(s, p) ==
  LET later == {j \in QuestionMarks(s) : j >= p} IN
  IF later = {} THEN <<>>
  ELSE LET q == QuestionEndingAt(s, First(later)) IN
       (IF q = <<>> THEN <<>> ELSE <<q>>) \o QuestionsFrom(s, First(later) + 1)

\* the text up to e ends with the word, letter case set aside
EndsWithWord(s, e, word) ==
  /\ e >= Len(word)
  /\ \A k \in 1..Len(word) : LowerToken(s[e - Len(word) + k]) = word[k]

AnswerMarks(s) ==
  {m \in 1..(Len(s) - 1) :
     /\ s[m] \in {":", "-"}
     /\ LET written == {k \in 1..(m - 1) : ~IsSpace(s[k])} IN
        /\ written # {}
        /\ \/ EndsWithWord(s, Last(written), <<"a", "n", "s", "w", "e", "r">>)
           \/ EndsWithWord(s, Last(written), <<"c", "o", "r", "r", "e", "c", "t">>)}

\* the answer of the first answer line, <<>> if there is no answer line
AnswerOf(s) ==
  IF AnswerMarks(s) = {} THEN <<>>
  ELSE LET m == First(AnswerMarks(s))
           g == First({k \in (m + 1)..Len(s) : ~IsSpace(s[k])})
           feeds == {n \in g..Len(s) : s[n] = "\n"}
       IN Trim(SubSeq(s, g, IF feeds = {} THEN Len(s) ELSE First(feeds) - 1))

RECURSIVE Dashed(_)
Dashed(questions) ==
  IF questions = <<>> THEN <<>>
  ELSE <<"- ">> \o questions[1]
         \o (IF Len(questions) = 1 THEN <<>> ELSE <<"\n">> \o Dashed(Tail(questions)))

AnswerFound == "\nPossible answer found in provided content: "

NoAnswerNote ==
  "\nNo explicit \"correct answer\" text found. Paste more of the page content or metadata."

Holds(block, piece) == \E n \in 1..Len(block) : block[n] = piece

\* the report the claim describes, behind the label
AnswerReport(s) ==
  LET questions == QuestionsFrom(s, 1) IN
  IF URLStarts(s) # {}
  THEN <<"\n", "Webpage detected: ">> \o FirstURL(s)
         \o (IF questions = <<>> THEN <<>>
             ELSE <<"\nDetected question(s):\n">> \o Dashed(questions))
         \o <<"\nUse the Paste Page Text box for exact grounded answers, or let GOD try to fetch page content automatically.">>
  ELSE IF questions # <<>>
  THEN <<"\n", "Detected ", ToString(Len(questions)), " question(s).\n", "Questions:\n">>
         \o Dashed(questions)
         \o (IF AnswerOf(s) # <<>> THEN <<AnswerFound>> \o AnswerOf(s) ELSE <<NoAnswerNote>>)
  ELSE <<"\nNo questions detected in input.">>

TwoPlusTwo ==
  <<"W", "h", "a", "t", " ", "i", "s", " ", "2", "+", "2", "?", " ", "A",
    "n", "s", "w", "e", "r", ":", " ", "4">>

\* C20: in a run that has returned, the block of every enabled
\* answer-web-questions task is its label and then: for a prompt with an
\* http(s) URL, the first URL and the questions detected, and never an
\* answer; else, for a prompt with a question, the questions and either the
\* answer of the answer line or the note that no answer was found, never
\* both; else, that no questions were detected.  For the prompt
\* What is 2+2? Answer: 4 the report holds the one question What is 2+2? and
\* the answer 4.
C20_AnswerWebQuestionsPriority ==
  RunReturned =>
    LET enabled == EnabledOf(tasks) IN
    \A i \in 1..Len(enabled) :
      enabled[i].id = "answer-web-questions" =>
        /\ Labelled(outputs[i], enabled[i])
        /\ SubSeq(outputs[i], 4, Len(outputs[i])) = AnswerReport(Cleaned)
        /\ URLStarts(Cleaned) # {} => ~Holds(outputs[i], AnswerFound)
        /\ ~(Holds(outputs[i], AnswerFound) /\ Holds(outputs[i], NoAnswerNote))
        /\ userPrompt = TwoPlusTwo =>
             SubSeq(outputs[i], 4, Len(outputs[i]))
               = <<"\n", "Detected ", "1", " question(s).\n", "Questions:\n", "- ">>
                   \o SubSeq(TwoPlusTwo, 1, 12) \o <<AnswerFound, "4">>

\* the prompt of the example, run on the task alone
C20_Witness ==
  /\ RunReturned
  /\ Len(tasks) = 1
  /\ tasks[1].id = "answer-web-questions"
  /\ tasks[1].enabled
  /\ userPrompt = TwoPlusTwo
  /\ QuestionsFrom(Cleaned, 1) = <<SubSeq(TwoPlusTwo, 1, 12)>>
  /\ AnswerOf(Cleaned) = <<"4">>
  /\ Holds(outputs[1], AnswerFound)
  /\ outputs[1][Len(outputs[1])] = "4"

(***************************************************************************)
(* C21.  The report of the extract-links task, read from the prompt        *)
(* without the pattern of automation.ts.  A link starts at http:// or      *)
(* https:// with a character behind it that is no white space, and runs on *)
(* to the next white space or the end of the prompt; a scheme written      *)
(* inside a link belongs to that link.                                     *)
(***************************************************************************)
\* the link that starts at i
LinkAt(s, i) ==
  LET spaces == {j \in i..Len(s) : IsSpace(s[j])} IN
  SubSeq(s, i, IF spaces = {} THEN Len(s) ELSE First(spaces) - 1)

\* the links that start at p or later, in their order in the prompt
RECURSIVE LinksFrom(_, _)
LinksFrom(s, p) ==
  LET later == {i \in URLStarts(s) : i >= p} IN
  IF later = {} THEN <<>>
  ELSE LET link == LinkAt(s, First(later)) IN
       <<link>> \o LinksFrom(s, First(later) + Len(link))

LinksOf(s) == LinksFrom(s, 1)

NoLinksNote == "\nNo links found in input."

\* the report the claim describes, behind the label
LinkReport(s) ==
  IF LinksOf(s) = <<>> THEN <<NoLinksNote>>
  ELSE <<"\n", "Found ", ToString(Len(LinksOf(s))), " link(s):\n">> \o Dashed(LinksOf(s))

VisitTwo ==
  <<"V", "i", "s", "i", "t", " ", "h", "t", "t", "p", "s", ":", "/", "/",
    "e", "x", "a", "m", "p", "l", "e", ".", "c", "o", "m", " ", "a", "n",
    "d", " ", "h", "t", "t", "p", "s", ":", "/", "/", "t", "e", "s", "t",
    ".", "o", "r", "g">>

\* C21: in a run that has returned, the block of every enabled
\* extract-links task is its label and then, for a prompt that holds links,
\* the number of the links and the links themselves, one line each, in the
\* order they occur in the prompt, a link that occurs twice listed twice;
\* for a prompt without a link, the note that no links were found.  For the
\* prompt Visit https://example.com and https://test.org the report counts
\* 2 links and lists https://example.com before https://test.org.
C21_ExtractLinksReport ==
  RunReturned =>
    LET enabled == EnabledOf(tasks) IN
    \A i \in 1..Len(enabled) :
      enabled[i].id = "extract-links" =>
        /\ Labelled(outputs[i], enabled[i])
        /\ SubSeq(outputs[i], 4, Len(outputs[i])) = LinkReport(Cleaned)
        /\ LinksOf(Cleaned) = <<>> <=> Holds(outputs[i], NoLinksNote)
        /\ userPrompt = VisitTwo =>
             SubSeq(outputs[i], 4, Len(outputs[i]))
               = <<"\n", "Found ", "2", " link(s):\n", "- ">> \o SubSeq(VisitTwo, 7, 25)
                   \o <<"\n", "- ">> \o SubSeq(VisitTwo, 31, 46)

\* a prompt that holds one link twice, run on the task alone: the report
\* counts 2 and lists the link twice
C21_Witness ==
  /\ RunReturned
  /\ Len(tasks) = 1
  /\ tasks[1].id = "extract-links"
  /\ tasks[1].enabled
  /\ Len(LinksOf(Cleaned)) = 2
  /\ LinksOf(Cleaned)[1] = LinksOf(Cleaned)[2]
  /\ outputs[1][6] = "2"
  /\ SubSeq(outputs[1], 8, Len(outputs[1])) = Dashed(LinksOf(Cleaned))

(***************************************************************************)
(* C22.  The list of the key-phrases task, read back from its block and    *)
(* held against the tokens of the prompt.  A token is a run of characters  *)
(* that are no white space, with white space or an end of the prompt on    *)
(* either side of it.                                                      *)
(***************************************************************************)
\* where the tokens of s start
TokenStarts(s) ==
  {i \in 1..Len(s) : ~IsSpace(s[i]) /\ (i = 1 \/ IsSpace(s[i - 1]))}

\* the token that starts at i
TokenAt(s, i) ==
  SubSeq(s, i, First({j \in i..Len(s) : j = Len(s) \/ IsSpace(s[j + 1])}))

\* where the long tokens of s are first seen
LongFirstSeen(s) ==
  {i \in TokenStarts(s) :
     /\ Len(TokenAt(s, i)) > 5
     /\ \A k \in TokenStarts(s) : k < i => TokenAt(s, k) # TokenAt(s, i)}

\* the terms a block lists: what stands between the separators behind
\* Key terms:
RECURSIVE TermsIn(_)
TermsIn(pieces) ==
  IF pieces = <<>> THEN <<>>
  ELSE LET seps == {n \in 1..Len(pieces) : pieces[n] = ", "} IN
       IF seps = {} THEN <<pieces>>
       ELSE <<SubSeq(pieces, 1, First(seps) - 1)>>
              \o TermsIn(SubSeq(pieces, First(seps) + 1, Len(pieces)))

TermsListed(block) == TermsIn(SubSeq(block, 6, Len(block)))

Smaller(a, b) == IF a < b THEN a ELSE b

\* C22: in a run that has returned, the block of every enabled key-phrases
\* task is its label and Key terms: followed by a list of at most 5 terms;
\* every term listed is a token of the prompt of more than 5 characters; no
\* term is listed twice; the terms stand in the order in which they are
\* first seen in the prompt; a long token that is not listed is first seen
\* behind all that are; and the list has 5 terms, or as many as the prompt
\* has distinct long tokens when those are fewer.
C22_KeyPhrasesList ==
  RunReturned =>
    LET enabled == EnabledOf(tasks) IN
    \A i \in 1..Len(enabled) :
      enabled[i].id = "key-phrases" =>
        LET listed == TermsListed(outputs[i])
            seen == LongFirstSeen(userPrompt)
            at(n) == CHOOSE k \in seen : TokenAt(userPrompt, k) = listed[n]
        IN /\ Labelled(outputs[i], enabled[i])
           /\ SubSeq(outputs[i], 4, 5) = <<"\n", "Key terms: ">>
           /\ Len(listed) <= 5
           /\ \A n \in 1..Len(listed) :
                /\ Len(listed[n]) > 5
                /\ \E k \in TokenStarts(userPrompt) : TokenAt(userPrompt, k) = listed[n]
           /\ \A n, o \in 1..Len(listed) : n # o => listed[n] # listed[o]
           /\ \A n, o \in 1..Len(listed) : n < o => at(n) < at(o)
           /\ \A k \in seen :
                (\A n \in 1..Len(listed) : listed[n] # TokenAt(userPrompt, k))
                  => \A n \in 1..Len(listed) : at(n) < k
           /\ Len(listed) = Smaller(5, Cardinality(seen))

\* a prompt with more than 5 distinct long tokens, one of them written
\* twice, and a short token, run on the task alone: 5 terms are listed
C22_Witness ==
  /\ RunReturned
  /\ Len(tasks) = 1
  /\ tasks[1].id = "key-phrases"
  /\ tasks[1].enabled
  /\ Cardinality(LongFirstSeen(userPrompt)) > 5
  /\ \E k \in TokenStarts(userPrompt) \ LongFirstSeen(userPrompt) :
       Len(TokenAt(userPrompt, k)) > 5
  /\ \E k \in TokenStarts(userPrompt) : Len(TokenAt(userPrompt, k)) <= 5
  /\ Len(TermsListed(outputs[1])) = 5

(***************************************************************************)
(* C23.  Read on the console: a prompt turn is in flight while its call of *)
(* submitPrompt is in turns.  A step is a call of submitPrompt when it     *)
(* leaves lastEvent naming submitPrompt, with the prompt the call found.   *)
(***************************************************************************)
SubmitCalled == lastEvent'.name = "submitPrompt"

\* empty after trimming: nothing but white space
BlankPrompt(p) == \A i \in DOMAIN p : IsSpace(p[i])

\* a call while busy, or with a blank prompt, changes nothing on the
\* console and starts no turn; nothing is run or sent for it
SubmitIgnored ==
  (SubmitCalled /\ (busy \/ BlankPrompt(lastEvent'.prompt))) =>
    /\ UNCHANGED <<busy, appMessages, pendingRequests, auditLog, turns, nextId>>
    /\ UNCHANGED <<dispatcherVars, automationVars>>

\* any other call starts a turn for its prompt and sets busy
SubmitAccepted ==
  (SubmitCalled /\ ~busy /\ ~BlankPrompt(lastEvent'.prompt)) =>
    /\ busy'
    /\ Len(turns') = Len(turns) + 1
    /\ turns'[Len(turns')].trimmed = Trim(lastEvent'.prompt)

\* a turn ends: on a blocker message, on a reply or on a connector error
TurnEnds == Len(turns') < Len(turns)

OneTurnInFlight == Len(turns) <= 1 /\ (busy <=> turns # <<>>)

TurnStarts == Len(turns') = Len(turns) + 1

Appended ==
  IF Len(appMessages') >= Len(appMessages)
       /\ SubSeq(appMessages', 1, Len(appMessages)) = appMessages
  THEN SubSeq(appMessages', Len(appMessages) + 1, Len(appMessages'))
  ELSE <<"rewritten">>

Said(list, role) == Len(SelectSeq(list, LAMBDA message : message.role = role))

\* the lines of the trace for the output of runAutomation
RECURSIVE TraceLines(_)
TraceLines(output) ==
  IF output = <<>> THEN <<>>
  ELSE <<"\n", "- ">> \o output[1] \o TraceLines(Tail(output))

\* content holds text, and behind it, at its end, the trace for prompt
HoldsThenTrace(content, text, prompt) ==
  LET lines == TraceLines(automationOutputOf[prompt])
      before == Len(content) - Len(lines)
  IN /\ lines # <<>>
     /\ before >= Len(text)
     /\ SubSeq(content, before + 1, Len(content)) = lines
     /\ \E i \in 1..(before - Len(text) + 1) : SubSeq(content, i, i + Len(text) - 1) = text

\* the step adds a user message with the prompt of the new turn, as the
\* last of what it adds, and no other user or assistant message
UserAppended ==
  /\ Appended # <<>>
  /\ Appended[Len(Appended)] = newMessage("user", turns'[Len(turns')].trimmed)
  /\ Said(Appended, "user") = 1
  /\ Said(Appended, "assistant") = 0

\* the step adds one message, an assistant message that ends with the trace
\* of the turn that ends
AssistantAppended ==
  \E k \in DOMAIN turns :
    /\ turns' = WithoutPlace(turns, k)
    /\ Len(Appended) = 1
    /\ Appended[1].role = "assistant"
    /\ HoldsThenTrace(Appended[1].content, <<>>, turns[k].trimmed)

Settles == lastEvent'.name = "settled"

\* the turn ends with the reply, or with the text of the error, and the
\* trace behind it
SettledReported ==
  /\ TurnEnds
  /\ \E k \in DOMAIN turns :
       /\ turns' = WithoutPlace(turns, k)
       /\ LET settled == lastEvent'.settled IN
          HoldsThenTrace(Appended[1].content,
                         IF settled.ok THEN settled.value ELSE settled.error.message,
                         turns[k].trimmed)

\* user and assistant messages take turns in the conversation, which ends
\* with a user message exactly while a turn is in flight
Alternating ==
  LET said == SelectSeq(appMessages, LAMBDA message : message.role # "system") IN
  /\ \A i \in DOMAIN said :
       said[i].role = IF i % 2 = 1 THEN "assistant" ELSE "user"
  /\ said[Len(said)].role = "user" <=> turns # <<>>

\* C24: the step of submitPrompt that starts a turn appends one user
\* message, with the prompt, and no assistant message; the step that ends
\* the turn appends one assistant message and nothing else; no other step
\* appends a user or an assistant message.  When requestChatCompletion
\* settles with a reply the assistant message holds the reply and behind it
\* the automation trace of the prompt; when it settles with an error
\* (ConfigError, NetworkError, an HTTP error, EmptyResponse, or an error
\* llm.ts did not construct) the message holds the text of the error and
\* behind it the same trace; a turn that ends on a page-fetch blocker ends
\* with that trace too.
C24_OneReplyPerTurn ==
  /\ [][TurnStarts => UserAppended]_vars
  /\ [][TurnEnds => AssistantAppended]_vars
  /\ [][(~TurnStarts /\ ~TurnEnds) =>
          (Said(Appended, "user") = 0 /\ Said(Appended, "assistant") = 0)]_vars
  /\ [][Settles => SettledReported]_vars
  /\ []Alternating

\* the second turn of a session has just ended on an EmptyResponse of the
\* dispatcher, a decision on the request of its prompt was taken while it
\* was in flight, and the first turn had ended with a reply
C24_Witness ==
  /\ lastEvent.name = "settled"
  /\ ErrorKind(lastEvent.settled.error) = "EmptyResponse"
  /\ turns = <<>>
  /\ Said(appMessages, "user") = 2
  /\ Said(appMessages, "assistant") = 3
  /\ appMessages[Len(appMessages)].role = "assistant"
  /\ appMessages[Len(appMessages) - 1].role = "system"
  /\ appMessages[Len(appMessages) - 2].role = "user"
  /\ \E i \in 2..(Len(appMessages) - 3) :
       /\ appMessages[i].role = "assistant"
       /\ appMessages[i].content[1] = "ok"

====
